---- MODULE Spec2Model ----
(***************************************************************************)
(* Model of the McAtlas viewer side (tauri-app): the Sync button handler,  *)
(* fetchGeometryFromRhino, addModelFromRhino with its clipping helpers,    *)
(* and the 2D/3D view-mode manager.                                        *)
(*                                                                         *)
(* Every click on Sync starts one run of the async click handler.  A run   *)
(* is a process whose position (pc) advances from one await to the next;   *)
(* the code between two awaits is one atomic step, because the JavaScript  *)
(* event loop runs it to completion.  Consecutive awaits of logToRhino     *)
(* with no access to shared state in between are folded into one step.     *)
(***************************************************************************)
EXTENDS Integers, FiniteSets, Sequences, TLC

\* ------------------------------------------------------------------ bounds
\* Number of Sync clicks in a behaviour.
MaxCycles == 2

\* ------------------------------------------------------------------ inputs
Cycles == 1..MaxCycles

\* Clipping loops the Rhino side may send, by identity.
Loops == 1..4

\* Loops for which Cesium.Cartesian3.fromDegreesArray / new ClippingPolygon
\* throws (odd coordinate count, fewer than three positions).
BadLoops == {4}

\* The clippingPolygons lists of the payloads: absent or empty, two payloads
\* with different loops, and one whose only loop cannot be built.
PolyChoices == {{}, {1, 2}, {3, 4}, {4}}

\* Ground elevations sampleTerrainMostDetailed may return.
TerrainSamples == {0, 5}

NoModel == 0

\* position.height of the sample payloads: 0 as the export sends it, and a
\* model Z offset for two of them.
SampleHeight(ps) == IF ps \in {{1, 2}, {4}} THEN 3 ELSE 0

\* What the terrain lookup of addModelFromRhino can meet: no globe or no
\* terrain provider, a sample that throws, a sample without a height, or a
\* sampled ground elevation.
TerrainOutcomes ==
  {[kind |-> k, height |-> 0] : k \in {"notReady", "throws", "noHeight"}}
  \cup {[kind |-> "sampled", height |-> h] : h \in TerrainSamples}

NoSample == [kind |-> "none", height |-> 0]

\* position.height values of a payload: the 0 the export sends, and model Z
\* offsets below and above the ground.
PayloadHeights == -3..6

NoData ==
  [kind |-> "none", glbPath |-> FALSE, clippingPolygons |-> {}, height |-> 0]
NullData ==
  [kind |-> "null", glbPath |-> FALSE, clippingPolygons |-> {}, height |-> 0]
ErrorData ==
  [kind |-> "error", glbPath |-> FALSE, clippingPolygons |-> {}, height |-> 0]

\* The JSON bodies the click handler can receive from /export-geometry.
Payloads ==
  {ErrorData}
  \cup {[kind |-> "payload", glbPath |-> FALSE, clippingPolygons |-> {},
         height |-> 0]}
  \cup {[kind |-> "payload", glbPath |-> TRUE, clippingPolygons |-> ps,
         height |-> SampleHeight(ps)] : ps \in PolyChoices}

\* What fetch() can do: fail to connect, answer with a non-OK status, or
\* answer 200 with a JSON body.
Transport == {"unreachable", "notOk", "ok"}

\* ------------------------------------------------------- Rhino document
\* Largest number of objects on the cesium_clip layer.
MaxClipObjs == 2

\* Requests the clients send to the plugin's server.
MaxRequests == 2

\* Points of the model plane (Z plays no part in the projection).
Pt(x, y) == <<x, y>>

\* Parameters per closed curve that is not a polyline:
\* curve.DivideByCount(64, true).
DivideCount == 64

\* The points curve.PointAt gives for the DivideCount parameters of a smooth
\* closed curve: DivideCount points around a rounded square of side
\* DivideCount / 4.
DividePoint(i) ==
  LET side == DivideCount \div 4
      q == (i - 1) \div side
      k == (i - 1) % side
  IN  CASE q = 0 -> Pt(k, 0)
        [] q = 1 -> Pt(side, k)
        [] q = 2 -> Pt(side - k, side)
        [] OTHER -> Pt(0, side - k)

\* The polyline built from the division of a smooth closed curve.  Whether
\* the division of a closed curve repeats the start point as its end is the
\* library's choice and is a property of the sample geometry.
DividedPolyline(endRepeated) ==
  [i \in 1..(DivideCount + (IF endRepeated THEN 1 ELSE 0)) |->
     IF i > DivideCount THEN DividePoint(1) ELSE DividePoint(i)]

\* Geometries a user can put on the cesium_clip layer.  kind is the runtime
\* type of obj.Geometry; curve says what `curve` ends up as after lines
\* 411-430: "none" (null), "polyline" (TryGetPolyline gives pts), "smooth"
\* (TryGetPolyline fails and the curve is divided) or "unconvertible"
\* (ToNurbsCurve gives null); closed is curve.IsClosed.
Geom(kind, curve, closed, endRepeated, pts) ==
  [kind |-> kind, curve |-> curve, closed |-> closed,
   endRepeated |-> endRepeated, pts |-> pts]

ClipCatalogue == 1..9

Geometry(id) ==
  CASE id = 1 -> Geom("other", "none", FALSE, FALSE, <<>>)
    [] id = 2 -> Geom("brep", "smooth", TRUE, TRUE, <<>>)
    [] id = 3 -> Geom("curve", "polyline", FALSE, FALSE,
                      <<Pt(0, 0), Pt(4, 0), Pt(4, 3)>>)
    [] id = 4 -> Geom("curve", "polyline", TRUE, FALSE,
                      <<Pt(0, 0), Pt(4, 0), Pt(4, 3), Pt(0, 0)>>)
    [] id = 5 -> Geom("extrusion", "polyline", TRUE, FALSE,
                      <<Pt(1, 1), Pt(5, 1), Pt(5, 6), Pt(1, 6), Pt(1, 1)>>)
    [] id = 6 -> Geom("curve", "polyline", TRUE, FALSE,
                      <<Pt(0, 0), Pt(4, 0), Pt(0, 0)>>)
    [] id = 7 -> Geom("curve", "polyline", TRUE, FALSE,
                      <<Pt(0, 0), Pt(2, 1), Pt(4, 2), Pt(0, 0)>>)
    [] id = 8 -> Geom("curve", "smooth", TRUE, FALSE, <<>>)
    [] OTHER -> Geom("curve", "unconvertible", TRUE, FALSE, <<>>)

\* doc.EarthAnchorPoint.  Latitude and longitude are in units of 10^-6
\* degree, the base point and the two directions in model units.
Anchor(set, lat, lon, elevation, base, north, east) ==
  [set |-> set, lat |-> lat, lon |-> lon, elevation |-> elevation,
   base |-> base, north |-> north, east |-> east]

\* The anchor of a document nobody has georeferenced.
UnsetAnchor == Anchor(FALSE, 0, 0, 0, Pt(0, 0), Pt(0, 1), Pt(1, 0))

\* Anchors a document can carry when the plugin starts: none, and one the
\* user set in Rhino with the model turned a quarter and a base point away
\* from the origin.
UserAnchors ==
  {UnsetAnchor,
   Anchor(TRUE, 60000000, 25000000, 7, Pt(2, 0), Pt(1, 0), Pt(0, -1))}

\* Latitudes and longitudes the viewer can send to /set-earth-anchor.
AnchorLats == {60000000}
AnchorLons == {25000000}

\* A coordinate field of the /set-earth-anchor body: absent, present with
\* text double.TryParse rejects, present with a number, or present without
\* the ':' and ',' or '}' the Substring arithmetic needs.
Field(tag, val) == [tag |-> tag, val |-> val]

LatFields ==
  {Field("missing", 0), Field("unparsable", 0), Field("malformed", 0)}
  \cup {Field("number", v) : v \in AnchorLats}
LonFields ==
  {Field("missing", 0), Field("unparsable", 0), Field("malformed", 0)}
  \cup {Field("number", v) : v \in AnchorLons}

\* Response bodies.
\* keys are the members of the JSON object.
NoResponse ==
  [endpoint |-> "none", kind |-> "none", keys |-> {}, error |-> "",
   lat |-> 0, lon |-> 0, height |-> 0, clippingPolygons |-> <<>>]
ErrorResponse(endpoint, message) ==
  [NoResponse EXCEPT !.endpoint = endpoint, !.kind = "error",
                     !.keys = {"error"}, !.error = message]
SuccessResponse(endpoint) ==
  [NoResponse EXCEPT !.endpoint = endpoint, !.kind = "success",
                     !.keys = {"success"}]
ImportedResponse ==
  [NoResponse EXCEPT !.endpoint = "import-map-image", !.kind = "success",
                     !.keys = {"success", "imagePath"}]
PayloadResponse(lat, lon, height, polygons) ==
  [NoResponse EXCEPT !.endpoint = "export-geometry", !.kind = "payload",
                     !.keys = {"glbPath", "position", "clippingPolygons"},
                     !.lat = lat, !.lon = lon, !.height = height,
                     !.clippingPolygons = polygons]

\* The lat and lon fields of the last /set-earth-anchor body from which the
\* anchor was written; NoAnchorBody before there is one.
AnchorBody(lat, lon) == [lat |-> lat, lon |-> lon]
NoAnchorBody == AnchorBody(Field("none", 0), Field("none", 0))

\* The imageBase64 field of an /import-map-image body: absent or empty, text
\* Convert.FromBase64String rejects, or image data.
ImageFields == {"missing", "invalid", "valid"}

\* What one run of GetGeometryJsonInternal did.
\* exportFailed: doc.ExportSelected was called and gave false, or the file
\* did not exist afterwards.
Trace(ran, anchorSet, projected, exported, wasLocked, exportFailed) ==
  [ran |-> ran, anchorSet |-> anchorSet, projected |-> projected,
   exported |-> exported, wasLocked |-> wasLocked,
   exportFailed |-> exportFailed]
NoTrace == Trace(FALSE, FALSE, FALSE, FALSE, FALSE, FALSE)

\* --------------------------------------------------------------- map export
\* Configuration of map-export.js.
EXPORT_SIZE_METERS == 2000
TILE_SIZE == 256
ZOOM_LEVEL == 18

\* Latitudes of the view centre, in 10^-3 degree: both hemispheres, the
\* equator, and latitudes beyond the Web Mercator limit of 85.0511 degrees.
\* The poles themselves are left out: there the cosine is 0 up to rounding
\* and the tile count has no integer value.
CenterLats == {-89000, -85060, -60000, 0, 40748, 60000, 85000, 85060, 89000}

\* Longitudes of the view centre, in 10^-3 degree, both ends of the range
\* Cesium.Math.toDegrees gives included.
CenterLons == {-180000, -73986, 0, 25000, 179999, 180000}

\* Sides of the export area in metres: none, less than a tile, just more than
\* a tile at the equator, and the configured one.
SizesMeters == {0, 100, 153, EXPORT_SIZE_METERS}

Zooms == {0, 1, 17, ZOOM_LEVEL}

\* 156543.03392 * Math.cos(lat * Math.PI / 180), rounded to whole metres:
\* the metres per pixel at zoom 0.
EquatorMetersPerPixel == 156543
MetersPerPixel0(lat) ==
  CASE lat \in {-89000, 89000} -> 2732
    [] lat \in {-85060, 85060} -> 13480
    [] lat = 85000 -> 13644
    [] lat \in {-60000, 60000} -> 78272
    [] lat = 40748 -> 118595
    [] OTHER -> EquatorMetersPerPixel

\* Binary digits of the Mercator table below.
MercatorBits == 20

\* floor(2^20 * (1 - ln(tan(lat) + 1 / cos(lat)) / pi) / 2): the y of
\* latLonToTile at zoom 20, from which the y at a lower zoom follows by
\* halving.
MercatorY(lat) ==
  CASE lat = -89000 -> 1315552
    [] lat = -85060 -> 1048875
    [] lat = -60000 -> 744069
    [] lat = 40748 -> 394109
    [] lat = 60000 -> 304506
    [] lat = 85000 -> 1717
    [] lat = 85060 -> -300
    [] lat = 89000 -> -266977
    [] OTHER -> 524288

NoBounds ==
  [zoom |-> -1, startX |-> 0, startY |-> 0, endX |-> -1, endY |-> -1,
   tilesX |-> 0, tilesY |-> 0, totalTiles |-> 0, pixelWidth |-> 0,
   pixelHeight |-> 0, west |-> 0, east |-> 0, metersPerPixel |-> 0,
   actualSizeMeters |-> 0]

\* What imageryProvider.requestImage(x, y, zoom) can do: resolve to an
\* image, resolve to nothing, or throw or reject.
RequestOutcomes == {"image", "noImage", "throws"}

\* Export requests whose tiles are stitched: lat, lon, size and zoom of an
\* area within one tile, of an area of 3 x 3 tiles, and of one of 3 x 3 tiles
\* next to the antimeridian.
StitchInputs ==
  {<<0, 25000, 100, ZOOM_LEVEL>>, <<0, 25000, 153, ZOOM_LEVEL>>,
   <<40748, 179999, 153, ZOOM_LEVEL>>}

NoCanvas == [width |-> 0, height |-> 0]
NoLog == [k |-> -1, n |-> -1]

VARIABLES
  pc,                       \* position of each click-handler run
  data,                     \* the handler's const data
  nextCycle,                \* number of Sync clicks so far, plus one
  entities,                 \* viewer.entities, by the cycle that added each
  currentModel,             \* cesium-geometry.js currentModel
  currentClippingPolygons,  \* cesium-geometry.js currentClippingPolygons
  tilesetClip,              \* tileset.clippingPolygons ({} is undefined)
  globeClip,                \* globe2D.clippingPolygons ({} is undefined)
  tilesetLoaded,            \* the tileset passed to initToolbar is not null
  currentMode,              \* view-mode.js currentMode
  globeInitialized,         \* view-mode.js: viewer.scene.globe is globe2D
  tilesetShow,              \* tileset3D.show
  globeShow,                \* globe2D.show
  enableTilt,               \* screenSpaceCameraController.enableTilt
  enableLook,               \* screenSpaceCameraController.enableLook
  terrainHeight,            \* addModelFromRhino's let terrainHeight
  placedHeight,             \* height of the entity each run added
  \* the height resolution of addModelFromRhino on its own (SpecPlacement)
  plPc,                     \* "lookup", "resolve" or "placed"
  plSample,                 \* what the terrain lookup meets
  plOffset,                 \* position.height of the payload
  plTerrainHeight,          \* let terrainHeight
  plFinalHeight,            \* const finalHeight, the entity's height
  \* the Rhino plugin's HTTP server and the active document (SpecRhino)
  docOpen,                  \* RhinoDoc.ActiveDoc is not null
  massingLayer,             \* cesium_massing: "absent", "unlocked", "locked"
  massingObjs,              \* there are objects on cesium_massing
  anchor,                   \* doc.EarthAnchorPoint
  clipLayer,                \* the cesium_clip layer exists
  clipObjs,                 \* objects on cesium_clip, as FindByLayer lists them
  response,                 \* body of the last response the server sent
  exportTrace,              \* what the last /export-geometry request did
  anchorSetBy,              \* body of the request that wrote the anchor
  mapLayer,                 \* the mcatlas_map layer exists
  hasMapImage,              \* a picture frame of the map is in the document
  \* map-export.js: tile bounds of the export area (SpecTiles, SpecStitch)
  center,                   \* getViewCenter: lat and lon in 10^-3 degree
  sizeMeters,               \* side of the export area
  zoom,                     \* tile zoom level
  tileBounds,               \* result of calculateTileBounds, or NoBounds
  \* fetchAndStitchTiles (SpecStitch)
  hasImagery,               \* the globe has an imagery layer
  stPc,                     \* "off", "start", "request", "done" or "thrown"
  tileX,                    \* loop variable x
  tileY,                    \* loop variable y
  canvas,                   \* width and height of the output canvas
  requested,                \* the requestImage calls so far, as <<x, y>>
  outcomes,                 \* what each of these calls gave
  draws,                    \* the drawImage calls so far
  fetchedCount,             \* let fetchedCount
  warnings,                 \* tiles named in a 'Warning: Failed to fetch'
  fetchedLog,               \* k and N of the final 'Fetched k/N tiles'
  \* the 2D/3D calls and exportMapToRhino (SpecExport)
  lastCall,                 \* the last view-mode call and what it met
  exPc,                     \* position of the exportMapToRhino call
  modeAtCall,               \* currentMode when the call was made
  modeAtCheck,              \* what its getCurrentMode() returned
  anchorAtCall,             \* doc.EarthAnchorPoint when it was made
  anchorRequests,           \* set-earth-anchor requests it has sent
  anchorResult,             \* const anchorResult
  provider,                 \* what the imagery provider does per tile
  exResult,                 \* what the call returned
  \* SimpleHttpServer (SpecServer)
  isRunning,                \* _isRunning
  listener,                 \* _listener: "none", "listening", "closed"
  loopPc,                   \* Listen: "none", "accept", "await", "exited"
  pending,                  \* connections waiting for GetContextAsync
  accepted,                 \* contexts GetContextAsync has returned
  handlers,                 \* the HandleRequest call of each context
  lastOp,                   \* the last Start or Stop and what it met
  alerts,                   \* alert() calls raised by each run, in order
  result,                   \* how each run ended
  removed,                  \* the entity each run took out of the viewer
  clipChanged,              \* the run changed an active clipping set
  lastClipStage             \* the run whose clipping stage finished last

syncVars == <<pc, data, nextCycle, entities, currentModel,
          currentClippingPolygons, tilesetClip, globeClip, tilesetLoaded,
          currentMode, globeInitialized, tilesetShow, globeShow, enableTilt,
          enableLook, terrainHeight, alerts, result, removed, clipChanged,
          lastClipStage, placedHeight>>

\* Variables of the other specifications, which the sync actions leave alone.
placementVars == <<plPc, plSample, plOffset, plTerrainHeight, plFinalHeight>>
rhinoVars == <<docOpen, massingLayer, massingObjs, anchor, clipLayer,
              clipObjs, response, exportTrace, anchorSetBy, mapLayer,
              hasMapImage>>
tileVars == <<center, sizeMeters, zoom, tileBounds>>
stitchVars == <<hasImagery, stPc, tileX, tileY, canvas, requested, outcomes,
               draws, fetchedCount, warnings, fetchedLog>>
exportVars == <<lastCall, exPc, modeAtCall, modeAtCheck, anchorAtCall,
               anchorRequests, anchorResult, provider, exResult>>
serverVars == <<isRunning, listener, loopPc, pending, accepted, handlers,
               lastOp>>
laterVars == <<exportVars, serverVars>>
otherVars == <<placementVars, rhinoVars, tileVars, stitchVars, laterVars>>

vars == <<syncVars, otherVars>>

viewVars == <<currentMode, globeInitialized, tilesetShow, globeShow,
              enableTilt, enableLook>>
sceneVars == <<entities, currentModel, currentClippingPolygons, tilesetClip,
               globeClip>>
ghostVars == <<result, removed, clipChanged>>

\* The viewer after main.js has run initCesiumViewer, initViewMode and
\* initToolbar.
SyncInit ==
  /\ pc = [p \in Cycles |-> "idle"]
  /\ data = [p \in Cycles |-> NoData]
  /\ nextCycle = 1
  /\ entities = {}
  /\ currentModel = NoModel
  /\ currentClippingPolygons = {}
  /\ tilesetClip = {}
  /\ globeClip = {}
  /\ tilesetLoaded \in BOOLEAN
  /\ currentMode = "3D"
  /\ globeInitialized = FALSE
  /\ tilesetShow = TRUE
  /\ globeShow = TRUE
  /\ enableTilt = TRUE
  /\ enableLook = TRUE
  /\ terrainHeight = [p \in Cycles |-> 0]
  /\ alerts = [p \in Cycles |-> <<>>]
  /\ result = [p \in Cycles |-> "none"]
  /\ removed = [p \in Cycles |-> NoModel]
  /\ clipChanged = [p \in Cycles |-> FALSE]
  /\ lastClipStage = 0
  /\ placedHeight = [p \in Cycles |-> 0]

\* The height resolution is not running.
PlacementIdle ==
  /\ plPc = "off"
  /\ plSample = NoSample
  /\ plOffset = 0
  /\ plTerrainHeight = 0
  /\ plFinalHeight = 0

\* The viewer part plays no role: no Sync click is handled.
SyncIdle == SyncInit /\ tilesetLoaded = FALSE

\* No document is open in Rhino and no request has been answered.
RhinoIdle ==
  /\ docOpen = FALSE
  /\ massingLayer = "absent"
  /\ massingObjs = FALSE
  /\ anchor = UnsetAnchor
  /\ clipLayer = FALSE
  /\ clipObjs = <<>>
  /\ response = NoResponse
  /\ exportTrace = NoTrace
  /\ anchorSetBy = NoAnchorBody
  /\ mapLayer = FALSE
  /\ hasMapImage = FALSE

\* No map export has been asked for.
TilesIdle ==
  /\ center = [lat |-> 0, lon |-> 0]
  /\ sizeMeters = 0
  /\ zoom = 0
  /\ tileBounds = NoBounds

\* fetchAndStitchTiles is not running.
StitchIdle ==
  /\ hasImagery = FALSE
  /\ stPc = "off"
  /\ tileX = 0
  /\ tileY = 0
  /\ canvas = NoCanvas
  /\ requested = <<>>
  /\ outcomes = <<>>
  /\ draws = <<>>
  /\ fetchedCount = 0
  /\ warnings = <<>>
  /\ fetchedLog = NoLog

\* What a view-mode call meets and leaves: the mode, whether globe2D is the
\* scene's globe, the two show flags and the two camera locks.
ViewState ==
  [mode |-> currentMode, globeInitialized |-> globeInitialized,
   tilesetShow |-> tilesetShow, globeShow |-> globeShow,
   enableTilt |-> enableTilt, enableLook |-> enableLook]

Call(op, before, returned) ==
  [op |-> op, before |-> before, returned |-> returned]

\* No view-mode call has been made and exportMapToRhino is not running.
ExportIdle ==
  /\ lastCall = Call("none", ViewState, "undefined")
  /\ exPc = "idle"
  /\ modeAtCall = "none"
  /\ modeAtCheck = "none"
  /\ anchorAtCall = UnsetAnchor
  /\ anchorRequests = 0
  /\ anchorResult = "none"
  /\ provider = "image"
  /\ exResult = "none"

\* The server object of a plugin that has not been loaded.
ServerState == [isRunning |-> isRunning, listener |-> listener]

Op(op, before) == [op |-> op, before |-> before]

NoHandler ==
  [pc |-> "none", method |-> "", path |-> "", status |-> 0,
   served |-> "none", afterStop |-> FALSE]

ServerIdle ==
  /\ isRunning = FALSE
  /\ listener = "none"
  /\ loopPc = "none"
  /\ pending = 0
  /\ accepted = 0
  /\ handlers = [k \in 1..MaxRequests |-> NoHandler]
  /\ lastOp = Op("none", ServerState)

LaterIdle == ExportIdle /\ ServerIdle

Init ==
  SyncInit /\ PlacementIdle /\ RhinoIdle /\ TilesIdle /\ StitchIdle /\ LaterIdle


\* ------------------------------------------------------- pure helpers
\* applyClippingPolygons, the for loop: the ClippingPolygon objects that are
\* pushed to cesiumPolygons; a loop whose construction throws is skipped.
Built(polygons) == polygons \ BadLoops

\* The click handler's test `if (data)` before addModelFromRhino.
HandlerInvokesAlways(d) == TRUE
HandlerInvokes(d) == d.kind # "null"

\* addModelFromRhino's test `if (!data || data.error)`.
IsRhinoError(d) == d.kind \in {"null", "error"}

\* addModelFromRhino's test
\* `clippingPolygons && clippingPolygons.length > 0 && tileset`.
WantsClipping(d) == d.clippingPolygons # {} /\ tilesetLoaded

InFlight(p) == pc[p] \notin {"idle", "done"}

\* Bookkeeping shared by every step of run p: whether the step changed a
\* clipping set that is active on the tileset or on the globe.
NoteClip(p) ==
  clipChanged' = [clipChanged EXCEPT ![p] =
     @ \/ tilesetClip' # tilesetClip \/ globeClip' # globeClip]

\* ------------------------------------------------- btnSync click handler
\* A click on Sync: the handler starts and suspends in its first logToRhino.
Click ==
  /\ UNCHANGED <<placedHeight, otherVars>>
  /\ UNCHANGED lastClipStage
  /\ nextCycle <= MaxCycles
  /\ pc[nextCycle] = "idle"
  /\ pc' = [pc EXCEPT ![nextCycle] = "fetch"]
  /\ nextCycle' = nextCycle + 1
  /\ UNCHANGED <<data, sceneVars, tilesetLoaded, viewVars, terrainHeight,
                 alerts, ghostVars>>

\* fetchGeometryFromRhino: returns the parsed body, or alerts and returns
\* null when fetch throws or the status is not OK.
FetchGeometryFromRhino(p) ==
  /\ UNCHANGED <<placedHeight, otherVars>>
  /\ UNCHANGED lastClipStage
  /\ pc[p] = "fetch"
  /\ \E t \in Transport :
       IF t = "ok"
       THEN /\ \E d \in Payloads : data' = [data EXCEPT ![p] = d]
            /\ UNCHANGED alerts
       ELSE /\ data' = [data EXCEPT ![p] = NullData]
            /\ alerts' = [alerts EXCEPT ![p] = Append(@, "connect")]
  /\ pc' = [pc EXCEPT ![p] = "gotData"]
  /\ UNCHANGED <<nextCycle, sceneVars, tilesetLoaded, viewVars,
                 terrainHeight, ghostVars>>

\* The handler after fetch: `if (data) await addModelFromRhino(...)`.
HandlerDispatch(p) ==
  /\ UNCHANGED <<placedHeight, otherVars>>
  /\ UNCHANGED lastClipStage
  /\ pc[p] = "gotData"
  /\ IF HandlerInvokes(data[p])
     THEN /\ pc' = [pc EXCEPT ![p] = "removeOld"]
          /\ UNCHANGED result
     ELSE /\ pc' = [pc EXCEPT ![p] = "done"]
          /\ result' = [result EXCEPT ![p] = "failed"]
  /\ UNCHANGED <<data, nextCycle, sceneVars, tilesetLoaded, viewVars,
                 terrainHeight, alerts, removed, clipChanged>>

\* ---------------------------------------------------- addModelFromRhino
\* `if (currentModel) viewer.entities.remove(currentModel)`.
RemoveOldModel(p) ==
  /\ UNCHANGED <<placedHeight, otherVars>>
  /\ UNCHANGED lastClipStage
  /\ pc[p] = "removeOld"
  /\ entities' = entities \ {currentModel}
  /\ removed' = [removed EXCEPT ![p] =
                   IF currentModel \in entities THEN currentModel ELSE @]
  /\ pc' = [pc EXCEPT ![p] = "check"]
  /\ UNCHANGED <<data, nextCycle, currentModel, currentClippingPolygons,
                 tilesetClip, globeClip, tilesetLoaded, viewVars,
                 terrainHeight, alerts, result, clipChanged>>

\* `if (!data || data.error) { alert(...); return; }`
CheckData(p) ==
  /\ UNCHANGED <<placedHeight, otherVars>>
  /\ UNCHANGED lastClipStage
  /\ pc[p] = "check"
  /\ IF IsRhinoError(data[p])
     THEN /\ alerts' = [alerts EXCEPT ![p] = Append(@, "rhinoError")]
          /\ pc' = [pc EXCEPT ![p] = "done"]
          /\ result' = [result EXCEPT ![p] = "failed"]
     ELSE /\ pc' = [pc EXCEPT ![p] = "clip"]
          /\ UNCHANGED <<alerts, result>>
  /\ UNCHANGED <<data, nextCycle, sceneVars, tilesetLoaded, viewVars,
                 terrainHeight, removed, clipChanged>>

\* `if (!glbPath) return;` and then the choice between
\* applyClippingPolygons and removeClipping; removeClipping tests
\* currentClippingPolygons in the same synchronous block.
ClipStage(p) ==
  /\ UNCHANGED <<placedHeight, otherVars>>
  /\ pc[p] = "clip"
  /\ IF ~data[p].glbPath
     THEN /\ pc' = [pc EXCEPT ![p] = "done"]
          /\ result' = [result EXCEPT ![p] = "failed"]
     ELSE /\ pc' = [pc EXCEPT ![p] =
                IF WantsClipping(data[p]) THEN "applyClear"
                ELSE IF currentClippingPolygons # {} THEN "removeClipping"
                ELSE "read"]
          /\ UNCHANGED result
  /\ lastClipStage' = IF pc'[p] = "read" THEN p ELSE lastClipStage
  /\ UNCHANGED <<data, nextCycle, sceneVars, tilesetLoaded, viewVars,
                 terrainHeight, alerts, removed, clipChanged>>

\* applyClippingPolygons, first block: "Remove existing clipping first".
ApplyClear(p) ==
  /\ UNCHANGED <<placedHeight, otherVars>>
  /\ UNCHANGED lastClipStage
  /\ pc[p] = "applyClear"
  /\ IF currentClippingPolygons # {}
     THEN /\ tilesetClip' = {}
          /\ globeClip' = IF globeInitialized THEN {} ELSE globeClip
     ELSE UNCHANGED <<tilesetClip, globeClip>>
  /\ pc' = [pc EXCEPT ![p] = "applyCommit"]
  /\ NoteClip(p)
  /\ UNCHANGED <<data, nextCycle, entities, currentModel,
                 currentClippingPolygons, tilesetLoaded, viewVars,
                 terrainHeight, alerts, result, removed>>

\* applyClippingPolygons, after the for loop: the collections built from the
\* payload replace those of the tileset and of the attached globe.
ApplyCommitMerging(p) ==
  /\ UNCHANGED <<placedHeight, otherVars>>
  /\ lastClipStage' = p
  /\ pc[p] = "applyCommit"
  /\ LET cesiumPolygons == Built(data[p].clippingPolygons) IN
       IF cesiumPolygons # {}
       THEN /\ tilesetClip' = tilesetClip \cup cesiumPolygons
            /\ globeClip' = IF globeInitialized
                            THEN globeClip \cup cesiumPolygons ELSE globeClip
            /\ currentClippingPolygons' = tilesetClip \cup cesiumPolygons
       ELSE UNCHANGED <<tilesetClip, globeClip, currentClippingPolygons>>
  /\ pc' = [pc EXCEPT ![p] = "read"]
  /\ NoteClip(p)
  /\ UNCHANGED <<data, nextCycle, entities, currentModel, tilesetLoaded,
                 viewVars, terrainHeight, alerts, result, removed>>

ApplyCommit(p) ==
  /\ UNCHANGED <<placedHeight, otherVars>>
  /\ lastClipStage' = p
  /\ pc[p] = "applyCommit"
  /\ LET cesiumPolygons == Built(data[p].clippingPolygons) IN
       IF cesiumPolygons # {}
       THEN /\ tilesetClip' = cesiumPolygons
            /\ globeClip' = IF globeInitialized
                            THEN cesiumPolygons ELSE globeClip
            /\ currentClippingPolygons' = cesiumPolygons
       ELSE UNCHANGED <<tilesetClip, globeClip, currentClippingPolygons>>
  /\ pc' = [pc EXCEPT ![p] = "read"]
  /\ NoteClip(p)
  /\ UNCHANGED <<data, nextCycle, entities, currentModel, tilesetLoaded,
                 viewVars, terrainHeight, alerts, result, removed>>

\* removeClipping, after its await: clear the tileset, the attached globe
\* and the module's reference.
RemoveClippingKeepingGlobe(p) ==
  /\ UNCHANGED <<placedHeight, otherVars>>
  /\ lastClipStage' = p
  /\ pc[p] = "removeClipping"
  /\ tilesetClip' = IF tilesetLoaded THEN {} ELSE tilesetClip
  /\ globeClip' = globeClip
  /\ currentClippingPolygons' = {}
  /\ pc' = [pc EXCEPT ![p] = "read"]
  /\ NoteClip(p)
  /\ UNCHANGED <<data, nextCycle, entities, currentModel, tilesetLoaded,
                 viewVars, terrainHeight, alerts, result, removed>>

RemoveClipping(p) ==
  /\ UNCHANGED <<placedHeight, otherVars>>
  /\ lastClipStage' = p
  /\ pc[p] = "removeClipping"
  /\ tilesetClip' = IF tilesetLoaded THEN {} ELSE tilesetClip
  /\ globeClip' = IF globeInitialized THEN {} ELSE globeClip
  /\ currentClippingPolygons' = {}
  /\ pc' = [pc EXCEPT ![p] = "read"]
  /\ NoteClip(p)
  /\ UNCHANGED <<data, nextCycle, entities, currentModel, tilesetLoaded,
                 viewVars, terrainHeight, alerts, result, removed>>

\* readFile of the GLB: returns the bytes, or throws into the catch block,
\* which alerts "Failed to load model".
ReadGlb(p) ==
  /\ UNCHANGED <<placedHeight, otherVars>>
  /\ UNCHANGED lastClipStage
  /\ pc[p] = "read"
  /\ \E ok \in BOOLEAN :
       IF ok
       THEN /\ pc' = [pc EXCEPT ![p] = "terrain"]
            /\ UNCHANGED <<alerts, result>>
       ELSE /\ alerts' = [alerts EXCEPT ![p] = Append(@, "loadFailed")]
            /\ pc' = [pc EXCEPT ![p] = "done"]
            /\ result' = [result EXCEPT ![p] = "failed"]
  /\ UNCHANGED <<data, nextCycle, sceneVars, tilesetLoaded, viewVars,
                 terrainHeight, removed, clipChanged>>

\* addModelFromRhino's terrainHeight after the lookup: `let terrainHeight =
\* 0`, replaced by `positions[0].height || 0` only when the globe and its
\* provider exist and the sample does not throw.
SampledHeight(o) == IF o.kind = "sampled" THEN o.height ELSE 0

\* `const finalHeight = terrainHeight + position.height`.
FinalHeightWithoutTerrain(th, ph) == ph
FinalHeight(th, ph) == th + ph

\* Terrain sampling on the 2D globe: a sampled height, or 0 when the
\* provider is missing, the sample throws or it carries no height.
SampleTerrain(p) ==
  /\ UNCHANGED <<lastClipStage, placedHeight, otherVars>>
  /\ pc[p] = "terrain"
  /\ \E o \in TerrainOutcomes :
       terrainHeight' = [terrainHeight EXCEPT ![p] = SampledHeight(o)]
  /\ pc' = [pc EXCEPT ![p] = "place"]
  /\ UNCHANGED <<data, nextCycle, sceneVars, tilesetLoaded, viewVars,
                 alerts, ghostVars>>

\* viewer.entities.add and `currentModel = modelEntity`, or an exception
\* from building the entity, caught with an alert.
PlaceModel(p) ==
  /\ UNCHANGED <<lastClipStage, otherVars>>
  /\ pc[p] = "place"
  /\ \E ok \in BOOLEAN :
       IF ok
       THEN /\ entities' = entities \cup {p}
            /\ placedHeight' = [placedHeight EXCEPT ![p] =
                  FinalHeight(terrainHeight[p], data[p].height)]
            /\ currentModel' = p
            /\ result' = [result EXCEPT ![p] = "placed"]
            /\ UNCHANGED alerts
       ELSE /\ alerts' = [alerts EXCEPT ![p] = Append(@, "loadFailed")]
            /\ result' = [result EXCEPT ![p] = "failed"]
            /\ UNCHANGED <<entities, currentModel, placedHeight>>
  /\ pc' = [pc EXCEPT ![p] = "done"]
  /\ UNCHANGED <<data, nextCycle, currentClippingPolygons, tilesetClip,
                 globeClip, tilesetLoaded, viewVars, terrainHeight, removed,
                 clipChanged>>

\* ------------------------------------------------------------ view mode
switchTo2D ==
  /\ tilesetShow' = IF tilesetLoaded THEN FALSE ELSE tilesetShow
  /\ globeInitialized' = TRUE
  /\ globeShow' = TRUE
  /\ enableTilt' = FALSE
  /\ enableLook' = FALSE
  /\ currentMode' = "2D"

switchTo3DKeepingGlobe ==
  /\ tilesetShow' = IF tilesetLoaded THEN TRUE ELSE tilesetShow
  /\ enableTilt' = TRUE
  /\ enableLook' = TRUE
  /\ currentMode' = "3D"
  /\ UNCHANGED <<globeShow, globeInitialized>>
switchTo3D ==
  /\ globeShow' = FALSE
  /\ tilesetShow' = IF tilesetLoaded THEN TRUE ELSE tilesetShow
  /\ enableTilt' = TRUE
  /\ enableLook' = TRUE
  /\ currentMode' = "3D"
  /\ UNCHANGED globeInitialized

\* The 2D/3D button.
toggleViewMode ==
  /\ UNCHANGED <<placedHeight, otherVars>>
  /\ UNCHANGED lastClipStage
  /\ IF currentMode = "3D" THEN switchTo2D ELSE switchTo3D
  /\ UNCHANGED <<pc, data, nextCycle, sceneVars, tilesetLoaded,
                 terrainHeight, alerts, ghostVars>>

Step(p) ==
  \/ FetchGeometryFromRhino(p)
  \/ HandlerDispatch(p)
  \/ RemoveOldModel(p)
  \/ CheckData(p)
  \/ ClipStage(p)
  \/ ApplyClear(p)
  \/ ApplyCommit(p)
  \/ RemoveClipping(p)
  \/ ReadGlb(p)
  \/ SampleTerrain(p)
  \/ PlaceModel(p)

Next ==
  \/ Click
  \/ toggleViewMode
  \/ \E p \in Cycles : Step(p)

Spec == Init /\ [][Next]_vars


\* ------------------------------------------------------------ properties
\* The runs that are inside addModelFromRhino.
Placing(p) ==
  pc[p] \in {"removeOld", "check", "clip", "applyClear", "applyCommit",
             "removeClipping", "read", "terrain", "place"}

\* The clipping loops run p's payload puts on the tileset.
LoopsOf(p) ==
  IF WantsClipping(data[p]) THEN Built(data[p].clippingPolygons) ELSE {}

\* The last Sync click so far.
LastStarted == nextCycle - 1

AllFinished == \A p \in Cycles : pc[p] \in {"idle", "done"}

\* C1: the viewer never holds two model entities added by sync.
C1_AtMostOneModel == Cardinality(entities) <= 1

\* C2: at most one sync cycle is placing at a time; the steps of two
\* addModelFromRhino runs never interleave.
C2_SingleCycleInFlight == Cardinality({p \in Cycles : Placing(p)}) <= 1

\* C3: a sync cycle that fails has not taken the previously placed model
\* entity out of the viewer.
C3_FailedKeepsPreviousModel ==
  \A p \in Cycles :
    (pc[p] = "done" /\ result[p] = "failed") => removed[p] = NoModel

\* C4: a sync cycle that fails has not changed the clipping polygons active
\* on the tileset or on the globe.
C4_FailedKeepsClipping ==
  \A p \in Cycles :
    (pc[p] = "done" /\ result[p] = "failed") => ~clipChanged[p]

\* C5: once the clipping stage of a sync with an empty or absent polygon
\* list has run, and until the clipping stage of another sync completes,
\* there is no active clipping loop: the tileset's and the globe's
\* clippingPolygons are cleared and currentClippingPolygons is null.
C5_EmptySyncClearsClipping ==
  \A p \in Cycles :
    (lastClipStage = p /\ ~WantsClipping(data[p])) =>
      /\ tilesetClip = {}
      /\ globeClip = {}
      /\ currentClippingPolygons = {}

\* C5 witness: a sync that applied loops has finished, and a later sync with
\* an empty list has cleared them and placed its model.
C5_Witness ==
  \E p, q \in Cycles :
    /\ q < p
    /\ pc[q] = "done" /\ result[q] = "placed" /\ LoopsOf(q) # {}
    /\ clipChanged[q]
    /\ pc[p] = "done" /\ result[p] = "placed"
    /\ data[p].clippingPolygons = {}
    /\ clipChanged[p]
    /\ lastClipStage = p
    /\ globeInitialized

\* C6: after a sync has applied a non-empty set of loops, the tileset's
\* active clipping set is exactly the loops built from that sync's payload,
\* or it is empty while a later sync is between clearing and applying; loops
\* of two payloads are never active together.
C6_ClippingReplacedNotMerged ==
  /\ tilesetClip \in {Built(S) : S \in PolyChoices}
  /\ \A p \in Cycles :
       (lastClipStage = p /\ LoopsOf(p) # {}) =>
         \/ tilesetClip = LoopsOf(p)
         \/ /\ tilesetClip = {}
            /\ \E q \in Cycles : pc[q] = "applyCommit"

\* C6 witness: a second sync has replaced the loops that an earlier sync
\* had applied by its own, different loops.
C6_Witness ==
  \E p, q \in Cycles :
    /\ q < p
    /\ LoopsOf(q) # {} /\ LoopsOf(p) # {} /\ LoopsOf(p) # LoopsOf(q)
    /\ clipChanged[q] /\ clipChanged[p]
    /\ pc[q] = "done" /\ pc[p] = "done"
    /\ lastClipStage = p
    /\ tilesetClip = LoopsOf(p)

\* C7: in 2D mode, with no sync in flight, the loops active on the tileset
\* are also active on the globe.
C7_GlobeClippedLikeTileset ==
  (currentMode = "2D" /\ AllFinished /\ tilesetClip # {}) =>
    globeClip = tilesetClip

\* C8: once every started sync has finished and the sync started last has
\* placed its model, the current model and the active clipping set are
\* those of the sync started last.
C8_LastStartedWins ==
  (LastStarted >= 1 /\ AllFinished /\ result[LastStarted] = "placed") =>
    /\ currentModel = LastStarted
    /\ tilesetClip = LoopsOf(LastStarted)

\* C9: a finished sync cycle has raised exactly one alert if it placed no
\* model and none if it placed one.
C9_OneAlertPerFailure ==
  \A p \in Cycles :
    pc[p] = "done" =>
      Len(alerts[p]) = IF result[p] = "placed" THEN 0 ELSE 1

\* C10: when the transport fails, fetchGeometryFromRhino shows the
\* connectivity alert and returns null without touching the scene, and the
\* handler then ends without entering addModelFromRhino, raising no other
\* alert and leaving the model and the clipping state as they were.
C10_TransportFailureLeavesScene ==
  [][\A p \in Cycles :
       /\ (pc[p] = "fetch" /\ data'[p] = NullData) =>
            /\ alerts'[p] = <<"connect">>
            /\ UNCHANGED sceneVars
       /\ (data[p] = NullData /\ pc'[p] # pc[p]) =>
            /\ pc'[p] = "done"
            /\ alerts'[p] = alerts[p]
            /\ UNCHANGED sceneVars]_vars

\* C10 witness: a sync whose fetch failed has ended with the connectivity
\* alert only, while a model and clipping loops of an earlier sync are in
\* the scene.
C10_Witness ==
  \E p \in Cycles :
    /\ pc[p] = "done" /\ data[p] = NullData
    /\ alerts[p] = <<"connect">>
    /\ currentModel # NoModel /\ currentModel \in entities
    /\ tilesetClip # {}

\* ------------------------------------------------- height resolution alone
\* addModelFromRhino from `let terrainHeight = 0` to the entity's position,
\* for one payload and one answer of the terrain lookup.
PlacementInit ==
  /\ SyncIdle
  /\ LaterIdle
  /\ RhinoIdle
  /\ TilesIdle
  /\ StitchIdle
  /\ plPc = "lookup"
  /\ plSample \in TerrainOutcomes
  /\ plOffset \in PayloadHeights
  /\ plTerrainHeight = 0
  /\ plFinalHeight = 0

\* The `if (globe && globe.terrainProvider) { try ... catch ... } else ...`
\* block: every branch falls through to the final height.
SampleTerrainElevation ==
  /\ plPc = "lookup"
  /\ plTerrainHeight' = SampledHeight(plSample)
  /\ plPc' = "resolve"
  /\ UNCHANGED <<plSample, plOffset, plFinalHeight, syncVars, rhinoVars, tileVars,
                 stitchVars, laterVars>>

\* `const finalHeight = ...` and Cartesian3.fromDegrees(lon, lat, finalHeight).
CreateModelEntity ==
  /\ plPc = "resolve"
  /\ plFinalHeight' = FinalHeight(plTerrainHeight, plOffset)
  /\ plPc' = "placed"
  /\ UNCHANGED <<plSample, plOffset, plTerrainHeight, syncVars, rhinoVars, tileVars,
                 stitchVars, laterVars>>

PlacementNext == SampleTerrainElevation \/ CreateModelEntity

SpecPlacement == PlacementInit /\ [][PlacementNext]_vars

\* ------------------------------------------------------------ Rhino plugin
\* Degrees (10^-6) of latitude per model unit towards north, and of longitude
\* per model unit towards east at the anchor's latitude, as
\* GetModelToEarthTransform scales them (the parallel at 60 degrees is half
\* as long as the equator).
LatScale == 9
LonScale(lat) == IF lat = 60000000 THEN 18 ELSE 9

Dot(u, v) == u[1] * v[1] + u[2] * v[2]

\* pt.Transform(modelToEarth): X = longitude, Y = latitude.
ModelToEarth(a, pt) ==
  LET d == Pt(pt[1] - a.base[1], pt[2] - a.base[2])
  IN  Pt(a.lon + Dot(d, a.east) * LonScale(a.lat),
         a.lat + Dot(d, a.north) * LatScale)

\* `curve` after the type switch is not null.
HasCurve(g) == g.kind \in {"curve", "extrusion", "brep"} /\ g.curve # "none"

\* `polyline` after TryGetPolyline and the division fallback; <<>> is null.
PolylineOf(g) ==
  CASE g.curve = "polyline" -> g.pts
    [] g.curve = "smooth" -> DividedPolyline(g.endRepeated)
    [] OTHER -> <<>>

\* Polyline.IsClosed: more than two points, first equal to last.
PolylineIsClosed(pl) == Len(pl) > 2 /\ pl[1] = pl[Len(pl)]

\* `int count = polyline.IsClosed ? polyline.Count - 1 : polyline.Count`.
VertexCountKeepingClosure(pl) == Len(pl)
VertexCount(pl) == IF PolylineIsClosed(pl) THEN Len(pl) - 1 ELSE Len(pl)

\* coordList of one object.
CoordList(a, pl) == [i \in 1..VertexCount(pl) |-> ModelToEarth(a, pl[i])]

\* The loop one object contributes to `polygons`, as a sequence of zero or
\* one loops: nothing for a null curve, an open curve, a polyline that is
\* null or has fewer than 3 points, or a coordList of fewer than 3.
LoopsOfObject(a, g) ==
  IF ~HasCurve(g) THEN <<>>
  ELSE IF ~g.closed THEN <<>>
  ELSE IF Len(PolylineOf(g)) < 3 THEN <<>>
  ELSE IF Len(CoordList(a, PolylineOf(g))) >= 3
       THEN <<CoordList(a, PolylineOf(g))>>
       ELSE <<>>

RECURSIVE ProjectObjects(_, _)
ProjectObjects(a, objs) ==
  IF objs = <<>> THEN <<>>
  ELSE LoopsOfObject(a, Geometry(Head(objs))) \o ProjectObjects(a, Tail(objs))

\* GetClippingPolygonsJson: the loops in the order of the objects.
GetClippingPolygonsJson(a) ==
  IF ~clipLayer \/ clipObjs = <<>> THEN <<>> ELSE ProjectObjects(a, clipObjs)

\* `!anchor.EarthLocationIsSet()`.
AnchorMissingNever(a) == FALSE
AnchorMissing(a) == ~a.set

\* The position of the payload: Point3d.Origin transformed to earth
\* coordinates, `lat = rhinoOrigin.Y`, `lon = rhinoOrigin.X`, `height = 0`.
OriginPositionSwapped(a) ==
  [lat |-> ModelToEarth(a, Pt(0, 0))[1], lon |-> ModelToEarth(a, Pt(0, 0))[2],
   height |-> 0]
OriginPosition(a) ==
  [lat |-> ModelToEarth(a, Pt(0, 0))[2], lon |-> ModelToEarth(a, Pt(0, 0))[1],
   height |-> 0]

\* `if (!ok)` after the export, ok being false when ExportSelected gave
\* false or the file does not exist.
ExportFailedNever(ok) == FALSE
ExportFailed(ok) == ~ok

\* GetGeometryJsonInternal for one outcome of doc.ExportSelected and
\* File.Exists: the response, the lock state it leaves on cesium_massing and
\* what it got to do.
GetGeometryJsonInternal(ok) ==
  LET wasLocked == massingLayer = "locked"
      origin == OriginPosition(anchor)
      Out(r, layer, projected, exported) ==
        [response |-> r, layer |-> layer,
         trace |-> Trace(TRUE, anchor.set, projected, exported, wasLocked,
                         exported /\ ~ok)]
      E(m) == ErrorResponse("export-geometry", m)
  IN  IF ~docOpen
      THEN Out(E("No active Rhino document"), massingLayer, FALSE, FALSE)
      ELSE IF massingLayer = "absent"
      THEN Out(E("Layer 'cesium_massing' not found"), massingLayer, FALSE,
               FALSE)
      ELSE IF ~massingObjs
      THEN Out(E("No objects on 'cesium_massing'"), massingLayer, FALSE, FALSE)
      ELSE IF AnchorMissing(anchor)
      THEN Out(E("EarthAnchorPoint not set. Please import a map first."),
               "unlocked", FALSE, FALSE)
      ELSE IF ExportFailed(ok)
      THEN Out(E("Export command failed"), massingLayer, TRUE, TRUE)
      ELSE Out(PayloadResponse(origin.lat, origin.lon, origin.height,
                               GetClippingPolygonsJson(anchor)),
               massingLayer, TRUE, TRUE)

\* GET /export-geometry: HandleRequest calls GetGeometryJson, which runs
\* GetGeometryJsonInternal through RhinoApp.InvokeOnUiThread and answers
\* "Failed to generate geometry" when it holds no result afterwards.
HandleGetGeometryJson(ok, hasResult) ==
  LET out == GetGeometryJsonInternal(ok)
  IN  /\ response' =
           IF hasResult THEN out.response
           ELSE ErrorResponse("export-geometry",
                              "Failed to generate geometry")
      /\ massingLayer' = out.layer
      /\ exportTrace' = out.trace
      /\ UNCHANGED <<docOpen, massingObjs, anchor, clipLayer, clipObjs,
                     anchorSetBy, mapLayer, hasMapImage>>

GetGeometryJson ==
  \E ok \in BOOLEAN, hasResult \in BOOLEAN :
    /\ HandleGetGeometryJson(ok, hasResult)
    /\ UNCHANGED <<syncVars, placementVars, tileVars, stitchVars,
                   laterVars>>

\* double.TryParse leaves 0 in its out parameter when it fails, and lat and
\* lon start as 0.
ParseField(f) == IF f.tag = "number" THEN f.val ELSE 0

\* The anchor SetEarthAnchorInternal writes back to the document: every
\* field of doc.EarthAnchorPoint is assigned.
NewAnchorKeepingFrame(old, lat, lon) ==
  [old EXCEPT !.set = TRUE, !.lat = lat, !.lon = lon]
NewAnchor(old, lat, lon) ==
  Anchor(TRUE, lat, lon, 0, Pt(0, 0), Pt(0, 1), Pt(1, 0))

\* POST /set-earth-anchor: SetEarthAnchor runs SetEarthAnchorInternal on the
\* UI thread.  A field without its delimiters makes Substring throw, which
\* the catch turns into an error response.
HandleSetEarthAnchor(lat, lon, hasResult) ==
  LET thrown == lat.tag = "malformed" \/ lon.tag = "malformed"
      E(m) == ErrorResponse("set-earth-anchor", m)
  IN  /\ anchor' =
           IF docOpen /\ ~thrown
           THEN NewAnchor(anchor, ParseField(lat), ParseField(lon))
           ELSE anchor
      /\ anchorSetBy' =
           IF docOpen /\ ~thrown THEN AnchorBody(lat, lon)
           ELSE anchorSetBy
      /\ response' =
           IF ~hasResult THEN E("Failed to set earth anchor")
           ELSE IF ~docOpen THEN E("No active Rhino document")
           ELSE IF thrown THEN E("exception")
           ELSE SuccessResponse("set-earth-anchor")
      /\ UNCHANGED <<docOpen, massingLayer, massingObjs, clipLayer,
                     clipObjs, exportTrace, mapLayer, hasMapImage>>

SetEarthAnchor ==
  \E lat \in LatFields, lon \in LonFields, hasResult \in BOOLEAN :
    /\ HandleSetEarthAnchor(lat, lon, hasResult)
    /\ UNCHANGED <<syncVars, placementVars, tileVars, stitchVars,
                   laterVars>>

\* Lists of at most n different clip objects, in catalogue order.
ClipObjLists(n) ==
  {l \in UNION {[1..k -> ClipCatalogue] : k \in 0..n} :
     \A i, j \in DOMAIN l : i < j => l[i] < l[j]}

\* The plugin has started its server on a document the user prepared.
RhinoInit ==
  /\ SyncIdle
  /\ LaterIdle
  /\ PlacementIdle
  /\ TilesIdle
  /\ StitchIdle
  /\ docOpen \in BOOLEAN
  /\ massingLayer \in
       IF docOpen THEN {"absent", "unlocked", "locked"} ELSE {"absent"}
  /\ massingObjs \in IF massingLayer = "absent" THEN {FALSE} ELSE BOOLEAN
  /\ anchor \in IF docOpen THEN UserAnchors ELSE {UnsetAnchor}
  /\ clipLayer \in IF docOpen THEN BOOLEAN ELSE {FALSE}
  /\ clipObjs \in IF clipLayer THEN ClipObjLists(MaxClipObjs) ELSE {<<>>}
  /\ response = NoResponse
  /\ exportTrace = NoTrace
  /\ anchorSetBy = NoAnchorBody
  /\ mapLayer = FALSE
  /\ hasMapImage = FALSE

RhinoNext == GetGeometryJson \/ SetEarthAnchor

SpecRhino == RhinoInit /\ [][RhinoNext]_vars

\* The answer to the last request is a payload of /export-geometry.
PayloadSent ==
  response.endpoint = "export-geometry" /\ response.kind = "payload"

\* POST /import-map-image: ImportMapImage runs ImportMapImageInternal on the
\* UI thread.  frameOk is whether doc.Objects.AddPictureFrame gave an object;
\* invalid base64 text makes Convert.FromBase64String throw, which the catch
\* turns into an error response.
HandleImportMapImage(image, frameOk, hasResult) ==
  LET E(m) == ErrorResponse("import-map-image", m)
      imported == docOpen /\ image = "valid" /\ frameOk
  IN  /\ hasMapImage' = (hasMapImage \/ imported)
      /\ mapLayer' = (mapLayer \/ imported)
      /\ response' =
           IF ~hasResult THEN E("Failed to import map image")
           ELSE IF ~docOpen THEN E("No active Rhino document")
           ELSE IF image = "missing" THEN E("No image data received")
           ELSE IF image = "invalid" THEN E("exception")
           ELSE IF ~frameOk THEN E("Failed to create PictureFrame")
           ELSE ImportedResponse
      /\ UNCHANGED <<docOpen, massingLayer, massingObjs, anchor, clipLayer,
                     clipObjs, exportTrace, anchorSetBy>>

ImportMapImage ==
  \E image \in ImageFields, frameOk \in BOOLEAN, hasResult \in BOOLEAN :
    /\ HandleImportMapImage(image, frameOk, hasResult)
    /\ UNCHANGED <<syncVars, placementVars, tileVars, stitchVars,
                   laterVars>>

\* The three endpoints on a document without a clip layer.
EndpointsInit == RhinoInit /\ clipLayer = FALSE

EndpointsNext == GetGeometryJson \/ SetEarthAnchor \/ ImportMapImage

SpecEndpoints == EndpointsInit /\ [][EndpointsNext]_vars

\* The last response is the success of a /set-earth-anchor request.
AnchorSetSucceeded ==
  response.endpoint = "set-earth-anchor" /\ response.kind = "success"

\* C21: once a set-earth-anchor request has succeeded, and after any further
\* requests, the anchor is the one the last writing request asked for:
\* latitude and longitude as requested, elevation 0, base point at the
\* origin, north (0,1) and east (1,0), both of unit length and perpendicular.
C21_AnchorFullyOverwritten ==
  /\ AnchorSetSucceeded => anchorSetBy # NoAnchorBody
  /\ anchorSetBy # NoAnchorBody =>
       /\ anchor.set
       /\ anchorSetBy.lat.tag = "number" => anchor.lat = anchorSetBy.lat.val
       /\ anchorSetBy.lon.tag = "number" => anchor.lon = anchorSetBy.lon.val
       /\ anchor.elevation = 0
       /\ anchor.base = Pt(0, 0)
       /\ anchor.north = Pt(0, 1) /\ anchor.east = Pt(1, 0)
       /\ Dot(anchor.north, anchor.north) = 1
       /\ Dot(anchor.east, anchor.east) = 1
       /\ Dot(anchor.north, anchor.east) = 0

C21_Witness ==
  /\ AnchorSetSucceeded
  /\ anchorSetBy = AnchorBody(Field("number", 60000000),
                              Field("number", 25000000))
  /\ anchor = Anchor(TRUE, 60000000, 25000000, 0, Pt(0, 0), Pt(0, 1),
                     Pt(1, 0))
  /\ exportTrace.ran /\ exportTrace.anchorSet

\* C22: a payload sent after a set-earth-anchor request wrote the anchor
\* carries the requested latitude and longitude as its position, and height
\* 0.
C22_AnchorRoundTrip ==
  (PayloadSent /\ anchorSetBy # NoAnchorBody) =>
    /\ anchorSetBy.lat.tag = "number" => response.lat = anchorSetBy.lat.val
    /\ anchorSetBy.lon.tag = "number" => response.lon = anchorSetBy.lon.val
    /\ response.height = 0

C22_Witness ==
  /\ PayloadSent
  /\ anchorSetBy = AnchorBody(Field("number", 60000000),
                              Field("number", 25000000))
  /\ response.lat = 60000000 /\ response.lon = 25000000
  /\ response.height = 0

\* C23: every response body is an error object with the error message as
\* its only member, or a success object (success: true, or the payload with
\* glbPath, position and clippingPolygons) without an error member; and a
\* GLB export that failed is answered with the error object.
C23_ErrorOrSuccessShape ==
  /\ response # NoResponse =>
       \/ response.keys = {"error"} /\ response.kind = "error"
       \/ /\ "error" \notin response.keys
          /\ \/ "success" \in response.keys
             \/ {"glbPath", "position", "clippingPolygons"} \subseteq
                  response.keys
  /\ (exportTrace.exportFailed /\ response.endpoint = "export-geometry") =>
       response.keys = {"error"}

C23_Witness ==
  /\ exportTrace.exportFailed
  /\ response = ErrorResponse("export-geometry", "Export command failed")
  /\ hasMapImage

\* C24: after an /export-geometry request the cesium_massing layer is
\* locked exactly if it was locked before the request.
C24_LockStateRestored ==
  exportTrace.ran => ((massingLayer = "locked") <=> exportTrace.wasLocked)

\* C29: a set-earth-anchor request is answered with success only when both
\* lat and lon are present in its body and parse as numbers.
C29_AnchorNeedsBothNumbers ==
  AnchorSetSucceeded =>
    /\ anchorSetBy.lat.tag = "number"
    /\ anchorSetBy.lon.tag = "number"

\* flyToCurrentModel (the Target button): viewer.flyTo(currentModel) when
\* currentModel is set, the 'No model loaded yet' alert otherwise.
flyToCurrentModel == IF currentModel # NoModel THEN "flyTo" ELSE "alert"

\* C25: whenever no sync is running, a non-null currentModel is an entity
\* of the viewer, and flyToCurrentModel flies exactly when a synced model is
\* in the scene and shows the alert otherwise, also after a failed sync.
C25_FlyTargetInScene ==
  AllFinished =>
    /\ currentModel # NoModel => currentModel \in entities
    /\ (flyToCurrentModel = "flyTo") <=> (entities # {})

\* C11: an /export-geometry request that finds no earth anchor set answers
\* with an error object, never with a payload carrying a position, and it
\* has neither projected the clipping loops nor exported the GLB.
C11_NoAnchorNoPayload ==
  (exportTrace.ran /\ ~exportTrace.anchorSet) =>
    /\ response.endpoint = "export-geometry" => response.kind = "error"
    /\ ~exportTrace.projected
    /\ ~exportTrace.exported

C11_Witness ==
  /\ exportTrace.ran /\ ~exportTrace.anchorSet
  /\ docOpen /\ massingLayer # "absent" /\ massingObjs
  /\ clipLayer /\ clipObjs # <<>>
  /\ response =
       ErrorResponse("export-geometry",
                     "EarthAnchorPoint not set. Please import a map first.")

\* The vertices of a clip object once an explicit closing vertex is left
\* out, and the objects that are closed curves with at least 3 of them.
OpenVertices(g) ==
  LET pl == PolylineOf(g)
  IN  IF Len(pl) >= 2 /\ pl[1] = pl[Len(pl)] THEN SubSeq(pl, 1, Len(pl) - 1)
      ELSE pl
IsLoop(g) == HasCurve(g) /\ g.closed /\ Len(OpenVertices(g)) >= 3
LoopObjects == SelectSeq(clipObjs, LAMBDA id : IsLoop(Geometry(id)))

\* C19: every loop in a payload has at least 3 vertices and does not end
\* with a copy of its first vertex; clip objects that are no curve, open or
\* left with fewer than 3 vertices are skipped, the export does not fail
\* because of them, and every other object still contributes its loop, in
\* the order of the objects.
C19_LoopsWellFormed ==
  /\ PayloadSent =>
       /\ \A i \in DOMAIN response.clippingPolygons :
            LET loop == response.clippingPolygons[i]
            IN  Len(loop) >= 3 /\ loop[1] # loop[Len(loop)]
       /\ Len(response.clippingPolygons) = Len(LoopObjects)
       /\ \A i \in DOMAIN LoopObjects :
            LET vs == OpenVertices(Geometry(LoopObjects[i]))
                loop == response.clippingPolygons[i]
            IN  /\ Len(loop) = Len(vs)
                /\ \A k \in DOMAIN vs : loop[k] = ModelToEarth(anchor, vs[k])
  /\ (exportTrace.projected /\ response.endpoint = "export-geometry"
       /\ response.kind = "error") =>
       response.error \in {"Export command failed",
                           "Failed to generate geometry"}

C19_Witness ==
  /\ PayloadSent
  /\ clipObjs = <<6, 8>>
  /\ Len(response.clippingPolygons) = 1
  /\ Len(response.clippingPolygons[1]) = DivideCount

\* Twice the signed area of a loop, by the shoelace formula on coordinates
\* relative to the first vertex.
RECURSIVE Shoelace(_, _)
Shoelace(loop, i) ==
  IF i >= Len(loop) THEN 0
  ELSE (loop[i][1] - loop[1][1]) * (loop[i + 1][2] - loop[1][2])
       - (loop[i + 1][1] - loop[1][1]) * (loop[i][2] - loop[1][2])
       + Shoelace(loop, i + 1)
Area2(loop) == Shoelace(loop, 1)

\* C20: no loop of a payload encloses zero area.
C20_NoZeroAreaLoop ==
  PayloadSent =>
    \A i \in DOMAIN response.clippingPolygons :
      Area2(response.clippingPolygons[i]) # 0

\* --------------------------------------------------------------- tile math
Pow2(k) == 2 ^ k

\* Math.ceil(a / b) for a >= 0, b > 0.
CeilDiv(a, b) == (a + b - 1) \div b

\* metersPerPixel(lat, zoom) is MetersPerPixel0(lat) / 2^zoom; the model
\* keeps it, and every length derived from it, as the numerator over 2^zoom.
metersPerPixel(lat, z) == MetersPerPixel0(lat)

\* x of latLonToTile: Math.floor((lon + 180) / 360 * n), with the common
\* factor 64 of n and 360000 taken out for zooms of 6 and more.
TileX(lon, z) ==
  IF z >= 6 THEN ((lon + 180000) * Pow2(z - 6)) \div 5625
  ELSE ((lon + 180000) * Pow2(z)) \div 360000

\* y of latLonToTile.
TileY(lat, z) == MercatorY(lat) \div Pow2(MercatorBits - z)

latLonToTile(lat, lon, z) == [x |-> TileX(lon, z), y |-> TileY(lat, z)]

\* lon of tileToLatLon, x / n * 360 - 180, in 10^-3 degree rounded down.
TileLon(x, z) ==
  IF z >= 6 THEN (x * 5625) \div Pow2(z - 6) - 180000
  ELSE (x * 360000) \div Pow2(z) - 180000

\* `Math.ceil(pixelsNeeded / TILE_SIZE)` with pixelsNeeded = sizeMeters / mpp.
TilesNeededRoundedDown(size, lat, z) ==
  (size * Pow2(z)) \div (TILE_SIZE * metersPerPixel(lat, z))
TilesNeeded(size, lat, z) ==
  CeilDiv(size * Pow2(z), TILE_SIZE * metersPerPixel(lat, z))

\* `Math.floor(tilesNeeded / 2)`.
HalfTilesRoundedUp(t) == (t + 1) \div 2
HalfTiles(t) == t \div 2

\* calculateTileBounds.  The north and south of `bounds` need the inverse
\* Mercator function and are left out; nothing reads them but a log line.
calculateTileBounds(centerLat, centerLon, size, z) ==
  LET mpp == metersPerPixel(centerLat, z)
      tilesNeeded == TilesNeeded(size, centerLat, z)
      centerTile == latLonToTile(centerLat, centerLon, z)
      halfTiles == HalfTiles(tilesNeeded)
      startX == centerTile.x - halfTiles
      startY == centerTile.y - halfTiles
      endX == centerTile.x + halfTiles
      endY == centerTile.y + halfTiles
  IN  [zoom |-> z, startX |-> startX, startY |-> startY, endX |-> endX,
       endY |-> endY,
       tilesX |-> endX - startX + 1,
       tilesY |-> endY - startY + 1,
       totalTiles |-> (endX - startX + 1) * (endY - startY + 1),
       pixelWidth |-> (endX - startX + 1) * TILE_SIZE,
       pixelHeight |-> (endY - startY + 1) * TILE_SIZE,
       west |-> TileLon(startX, z),
       east |-> TileLon(endX + 1, z),
       metersPerPixel |-> mpp,
       actualSizeMeters |-> (endX - startX + 1) * TILE_SIZE * mpp]

\* A view centre, an export size and a zoom level have been chosen.
TilesInit ==
  /\ SyncIdle
  /\ LaterIdle
  /\ PlacementIdle
  /\ RhinoIdle
  /\ StitchIdle
  /\ center \in [lat : CenterLats, lon : CenterLons]
  /\ sizeMeters \in SizesMeters
  /\ zoom \in Zooms
  /\ tileBounds = NoBounds

\* `const tileBounds = calculateTileBounds(center.lat, center.lon, ...)`.
CalculateTileBounds ==
  /\ tileBounds = NoBounds
  /\ tileBounds' = calculateTileBounds(center.lat, center.lon, sizeMeters, zoom)
  /\ UNCHANGED <<center, sizeMeters, zoom>>
  /\ UNCHANGED <<syncVars, placementVars, rhinoVars, stitchVars,
                     laterVars>>

TilesNext == CalculateTileBounds

SpecTiles == TilesInit /\ [][TilesNext]_vars

\* C13: the area the tiles cover is at least as large as the area asked
\* for: actualSizeMeters >= sizeMeters (both over 2^zoom in the model).
C13_CoversRequestedSize ==
  tileBounds # NoBounds =>
    tileBounds.actualSizeMeters >= sizeMeters * Pow2(zoom)

C13_Witness ==
  /\ tileBounds # NoBounds
  /\ sizeMeters = EXPORT_SIZE_METERS /\ zoom = ZOOM_LEVEL
  /\ center = [lat |-> 0, lon |-> 25000]
  /\ tileBounds.tilesX = 15

\* C14: the tile range is a square with an odd number of tiles per side,
\* symmetric about the centre tile: tilesX = tilesY = 2 * floor(t / 2) + 1
\* for t the least whole number of tiles that cover pixelsNeeded, the ends
\* are not below the starts, the raster is square, and an area of less than
\* one tile gives exactly one tile.
C14_OddSquareAroundCenter ==
  tileBounds # NoBounds =>
    LET b == tileBounds
        num == sizeMeters * Pow2(zoom)
        den == TILE_SIZE * MetersPerPixel0(center.lat)
        c == latLonToTile(center.lat, center.lon, zoom)
    IN  /\ b.tilesX = b.tilesY
        /\ b.tilesX >= 1 /\ b.tilesX % 2 = 1
        /\ \E t \in 0..b.tilesX :
             /\ t * den >= num /\ (t - 1) * den < num
             /\ b.tilesX = 2 * (t \div 2) + 1
        /\ b.endX >= b.startX /\ b.endY >= b.startY
        /\ b.startX + b.endX = 2 * c.x /\ b.startY + b.endY = 2 * c.y
        /\ b.tilesX = b.endX - b.startX + 1
        /\ b.tilesY = b.endY - b.startY + 1
        /\ b.pixelWidth = b.pixelHeight
        /\ b.pixelWidth = b.tilesX * TILE_SIZE
        /\ num < den => b.tilesX = 1 /\ b.tilesY = 1

C14_Witness ==
  /\ tileBounds # NoBounds
  /\ sizeMeters = 153 /\ zoom = ZOOM_LEVEL /\ center.lat = 0
  /\ tileBounds.tilesX = 3 /\ tileBounds.tilesY = 3

\* C15: every tile index of the range is a tile of the zoom level:
\* 0 <= x, y < 2^zoom.
C15_TileIndicesValid ==
  tileBounds # NoBounds =>
    /\ 0 <= tileBounds.startX /\ tileBounds.endX < Pow2(zoom)
    /\ 0 <= tileBounds.startY /\ tileBounds.endY < Pow2(zoom)

\* ---------------------------------------------------------- tile stitching
\* `const canvasX = (x - startX) * TILE_SIZE`, and the same for y.
CanvasOffsetAbsolute(i, start) == i * TILE_SIZE
CanvasOffset(i, start) == (i - start) * TILE_SIZE

\* The loop variables after one pass of the inner loop body:
\* `for (y ...) for (x = startX; x <= endX; x++)`.
NextTileSkippingFirst(x, y, b) ==
  IF x < b.endX THEN <<x + 1, y>> ELSE <<b.startX + 1, y + 1>>
NextTile(x, y, b) == IF x < b.endX THEN <<x + 1, y>> ELSE <<b.startX, y + 1>>

\* exportMapToRhino has computed the tile bounds and calls
\* fetchAndStitchTiles.
StitchInit ==
  /\ SyncIdle
  /\ LaterIdle
  /\ PlacementIdle
  /\ RhinoIdle
  /\ \E i \in StitchInputs :
       /\ center = [lat |-> i[1], lon |-> i[2]]
       /\ sizeMeters = i[3]
       /\ zoom = i[4]
  /\ tileBounds = calculateTileBounds(center.lat, center.lon, sizeMeters, zoom)
  /\ hasImagery \in BOOLEAN
  /\ stPc = "start"
  /\ tileX = 0
  /\ tileY = 0
  /\ canvas = NoCanvas
  /\ requested = <<>>
  /\ outcomes = <<>>
  /\ draws = <<>>
  /\ fetchedCount = 0
  /\ warnings = <<>>
  /\ fetchedLog = NoLog

\* From the creation of the canvas to the first pass of the loop:
\* throws 'No imagery layers available' when the globe has none.
CreateCanvas ==
  /\ stPc = "start"
  /\ canvas' = [width |-> tileBounds.pixelWidth,
                height |-> tileBounds.pixelHeight]
  /\ IF hasImagery
     THEN /\ stPc' = "request"
          /\ tileX' = tileBounds.startX
          /\ tileY' = tileBounds.startY
     ELSE /\ stPc' = "thrown"
          /\ UNCHANGED <<tileX, tileY>>
  /\ UNCHANGED <<hasImagery, requested, outcomes, draws, fetchedCount,
                 warnings, fetchedLog>>
  /\ UNCHANGED <<syncVars, placementVars, rhinoVars, tileVars,
                     laterVars>>

\* One pass of the loop body: the request, the draw when there is an image,
\* the count, or the warning of the catch block.
RequestTile(o) ==
  /\ stPc = "request"
  /\ tileY <= tileBounds.endY
  /\ requested' = Append(requested, <<tileX, tileY>>)
  /\ outcomes' = Append(outcomes, o)
  /\ draws' =
       IF o = "image"
       THEN Append(draws,
                   [tile |-> <<tileX, tileY>>,
                    canvasX |-> CanvasOffset(tileX, tileBounds.startX),
                    canvasY |-> CanvasOffset(tileY, tileBounds.startY)])
       ELSE draws
  /\ fetchedCount' = IF o = "throws" THEN fetchedCount
                     ELSE fetchedCount + 1
  /\ warnings' = IF o = "throws" THEN Append(warnings, <<tileX, tileY>>)
                 ELSE warnings
  /\ tileX' = NextTile(tileX, tileY, tileBounds)[1]
  /\ tileY' = NextTile(tileX, tileY, tileBounds)[2]
  /\ UNCHANGED <<hasImagery, stPc, canvas, fetchedLog>>

RequestImage ==
  /\ \E o \in RequestOutcomes : RequestTile(o)
  /\ UNCHANGED <<syncVars, placementVars, rhinoVars, tileVars, laterVars>>

\* The loop is over: the 'Fetched k/N tiles' line and `return canvas`.
ReturnCanvas ==
  /\ stPc = "request"
  /\ tileY > tileBounds.endY
  /\ fetchedLog' = [k |-> fetchedCount, n |-> tileBounds.totalTiles]
  /\ stPc' = "done"
  /\ UNCHANGED <<hasImagery, tileX, tileY, canvas, requested, outcomes,
                 draws, fetchedCount, warnings>>
  /\ UNCHANGED <<syncVars, placementVars, rhinoVars, tileVars,
                     laterVars>>

StitchNext == CreateCanvas \/ RequestImage \/ ReturnCanvas

SpecStitch == StitchInit /\ [][StitchNext]_vars

\* The tiles of the range in row-major order.
RowMajor(b) ==
  [i \in 1..b.totalTiles |->
     <<b.startX + ((i - 1) % b.tilesX),
       b.startY + ((i - 1) \div b.tilesX)>>]

\* C16: whatever tiles fail, the stitching goes on to return a raster of
\* pixelWidth x pixelHeight in which exactly the tiles that gave an image
\* are drawn, each at ((x - startX) * 256, (y - startY) * 256), and the
\* others are left blank; it throws only when the globe has no imagery layer.
C16_StitchCompletes ==
  /\ stPc = "thrown" <=> (stPc # "start" /\ ~hasImagery)
  /\ stPc = "request" => ENABLED (RequestImage \/ ReturnCanvas)
  /\ stPc = "done" =>
       /\ canvas = [width |-> tileBounds.pixelWidth,
                    height |-> tileBounds.pixelHeight]
       /\ Len(requested) = tileBounds.totalTiles
       /\ \A i \in DOMAIN requested :
            LET t == requested[i]
                at == {j \in DOMAIN draws : draws[j].tile = t}
            IN  IF outcomes[i] = "image"
                THEN \E j \in at :
                       /\ draws[j].canvasX = (t[1] - tileBounds.startX) * 256
                       /\ draws[j].canvasY = (t[2] - tileBounds.startY) * 256
                ELSE at = {}

C16_Witness ==
  /\ stPc = "done"
  /\ tileBounds.totalTiles = 9
  /\ outcomes = <<"image", "throws", "noImage", "image", "throws", "throws",
                  "noImage", "noImage", "image">>

\* C17: the tiles are requested once each in row-major order, y outside and
\* x inside, whatever the earlier requests gave; and no two draws cover the
\* same place or reach outside the canvas.
C17_RowMajorOnce ==
  /\ stPc \in {"request", "done"} =>
       /\ Len(requested) <= tileBounds.totalTiles
       /\ requested = SubSeq(RowMajor(tileBounds), 1, Len(requested))
       /\ \A i, j \in DOMAIN draws :
            (draws[i].canvasX = draws[j].canvasX
             /\ draws[i].canvasY = draws[j].canvasY) => i = j
       /\ \A i \in DOMAIN draws :
            /\ 0 <= draws[i].canvasX
            /\ draws[i].canvasX + TILE_SIZE <= canvas.width
            /\ 0 <= draws[i].canvasY
            /\ draws[i].canvasY + TILE_SIZE <= canvas.height
  /\ stPc = "done" => requested = RowMajor(tileBounds)

C17_Witness ==
  /\ stPc = "done"
  /\ Len(requested) = 9
  /\ outcomes[1] = "throws" /\ outcomes[2] = "noImage"
  /\ Len(draws) = 7

\* C18: every tile left blank has a warning that names it, and the k of the
\* final 'Fetched k/N' line is the number of tiles drawn.
C18_BlankTilesWarnedAndCounted ==
  stPc = "done" =>
    /\ \A i \in DOMAIN requested :
         outcomes[i] # "image" =>
           \E w \in DOMAIN warnings : warnings[w] = requested[i]
    /\ fetchedLog.k = Len(draws)
    /\ fetchedLog.n = tileBounds.totalTiles

\* C12: the entity is placed at the terrain height plus the payload's
\* position.height, where the terrain height is the sampled elevation, and 0
\* when the globe or provider is missing, the sample throws or it carries no
\* height; after each of these the run still goes on to place the entity.
C12_PlacedHeightIsTerrainPlusOffset ==
  /\ plPc \in {"resolve", "placed"} =>
       /\ plSample.kind \in {"notReady", "throws", "noHeight"} =>
            plTerrainHeight = 0
       /\ plSample.kind = "sampled" => plTerrainHeight = plSample.height
  /\ plPc = "placed" => plFinalHeight = plTerrainHeight + plOffset
  /\ plPc \in {"lookup", "resolve"} => ENABLED PlacementNext

C12_Witness ==
  /\ plPc = "placed"
  /\ plSample = [kind |-> "sampled", height |-> 5]
  /\ plOffset = 3
  /\ plFinalHeight = 8

\* ------------------------------------------------ the 2D/3D calls
\* view-mode.js exports toggleViewMode, switchTo2D and switchTo3D; each of
\* the two switches returns at once when its mode is the current one.
SwitchTo2DCall ==
  /\ IF currentMode = "2D" THEN UNCHANGED viewVars ELSE switchTo2D
  /\ lastCall' = Call("switchTo2D", ViewState, "undefined")

SwitchTo3DCall ==
  /\ IF currentMode = "3D" THEN UNCHANGED viewVars ELSE switchTo3D
  /\ lastCall' = Call("switchTo3D", ViewState, "undefined")

\* toggleViewMode returns currentMode as the switch left it.
ToggleViewModeCall ==
  /\ IF currentMode = "3D" THEN switchTo2D ELSE switchTo3D
  /\ lastCall' = Call("toggleViewMode", ViewState, currentMode')

ViewCall ==
  /\ SwitchTo2DCall \/ SwitchTo3DCall \/ ToggleViewModeCall
  /\ UNCHANGED <<pc, data, nextCycle, sceneVars, tilesetLoaded,
                 terrainHeight, alerts, ghostVars, lastClipStage,
                 placedHeight>>
  /\ UNCHANGED <<exPc, modeAtCall, modeAtCheck, anchorAtCall,
                 anchorRequests, anchorResult, provider, exResult>>
  /\ UNCHANGED <<placementVars, rhinoVars, tileVars, stitchVars, serverVars>>

\* ----------------------------------------------------- exportMapToRhino
\* Centres of the view at an export, in 10^-3 degree.
ExportCenters == {[lat |-> 0, lon |-> 25000], [lat |-> 40748, lon |-> -73986]}

\* JSON.stringify({ lat, lon }) of a centre, in the 10^-6 degree of the
\* anchor.
CenterBody(c) ==
  AnchorBody(Field("number", c.lat * 1000), Field("number", c.lon * 1000))

exportFrame == <<syncVars, placementVars, serverVars>>

\* The Export button: exportMapToRhino starts and suspends in its first
\* logToRhino.
ExportClick ==
  /\ exPc = "idle"
  /\ exPc' = "check"
  /\ modeAtCall' = currentMode
  /\ anchorAtCall' = anchor
  /\ UNCHANGED <<lastCall, modeAtCheck, anchorRequests, anchorResult,
                 provider, exResult>>
  /\ UNCHANGED <<exportFrame, rhinoVars, tileVars, stitchVars>>

\* `if (getCurrentMode() !== '2D') { alert(...); return null; }`, and
\* getViewCenter otherwise.
CheckModeAlways == TRUE
CheckMode == currentMode = "2D"

GetViewCenter ==
  /\ exPc = "check"
  /\ modeAtCheck' = currentMode
  /\ IF CheckMode
     THEN /\ \E c \in ExportCenters : center' = c
          /\ exPc' = "anchor"
          /\ UNCHANGED exResult
     ELSE /\ exResult' = "null"
          /\ exPc' = "returned"
          /\ UNCHANGED center
  /\ UNCHANGED <<lastCall, modeAtCall, anchorAtCall, anchorRequests,
                 anchorResult, provider>>
  /\ UNCHANGED <<sizeMeters, zoom, tileBounds>>
  /\ UNCHANGED <<exportFrame, rhinoVars, stitchVars>>

\* setEarthAnchorInRhino: the POST, which the plugin answers when it is
\* reached; a transport failure and a status that is not OK both give
\* { error }.  `if (anchorResult.error) return null`.
AnchorFailedNever(r) == FALSE
AnchorFailed(r) == r # "success"

SetEarthAnchorInRhino ==
  /\ exPc = "anchor"
  /\ anchorRequests' = anchorRequests + 1
  /\ \E t \in Transport :
       IF t = "ok"
       THEN /\ \E hasResult \in BOOLEAN :
                 HandleSetEarthAnchor(CenterBody(center).lat,
                                      CenterBody(center).lon, hasResult)
            /\ anchorResult' =
                 IF response'.kind = "error" THEN "error" ELSE "success"
       ELSE /\ anchorResult' = t
            /\ UNCHANGED rhinoVars
  /\ IF AnchorFailed(anchorResult')
     THEN exPc' = "returned" /\ exResult' = "null"
     ELSE exPc' = "bounds" /\ UNCHANGED exResult
  /\ UNCHANGED <<lastCall, modeAtCall, modeAtCheck, anchorAtCall, provider>>
  /\ UNCHANGED <<exportFrame, tileVars, stitchVars>>

\* calculateTileBounds(center.lat, center.lon, EXPORT_SIZE_METERS,
\* ZOOM_LEVEL) and the call of fetchAndStitchTiles.
CalculateExportBounds ==
  /\ exPc = "bounds"
  /\ sizeMeters' = EXPORT_SIZE_METERS
  /\ zoom' = ZOOM_LEVEL
  /\ tileBounds' = calculateTileBounds(center.lat, center.lon,
                                       EXPORT_SIZE_METERS, ZOOM_LEVEL)
  /\ stPc' = "start"
  /\ exPc' = "stitch"
  /\ UNCHANGED center
  /\ UNCHANGED <<hasImagery, tileX, tileY, canvas, requested, outcomes,
                 draws, fetchedCount, warnings, fetchedLog>>
  /\ UNCHANGED <<lastCall, modeAtCall, modeAtCheck, anchorAtCall,
                 anchorRequests, anchorResult, provider, exResult>>
  /\ UNCHANGED <<exportFrame, rhinoVars>>

\* One pass of the tile loop against the provider of this export.
ExportRequestImage ==
  /\ RequestTile(provider)
  /\ UNCHANGED <<syncVars, placementVars, rhinoVars, tileVars, laterVars>>

\* The try block around fetchAndStitchTiles and canvasToBase64: the result
\* { center, tileBounds }, or null from the catch when either throws.
ExportReturn ==
  /\ exPc = "stitch"
  /\ stPc \in {"done", "thrown"}
  /\ \E encoded \in BOOLEAN :
       exResult' = IF stPc = "done" /\ encoded THEN "value" ELSE "null"
  /\ exPc' = "returned"
  /\ UNCHANGED <<lastCall, modeAtCall, modeAtCheck, anchorAtCall,
                 anchorRequests, anchorResult, provider>>
  /\ UNCHANGED <<exportFrame, rhinoVars, tileVars, stitchVars>>

\* The viewer after main.js has run, in front of a Rhino whose plugin is
\* listening.
ExportInit ==
  /\ SyncInit
  /\ PlacementIdle
  /\ TilesIdle
  /\ docOpen \in BOOLEAN
  /\ massingLayer = "absent"
  /\ massingObjs = FALSE
  /\ anchor \in IF docOpen THEN UserAnchors ELSE {UnsetAnchor}
  /\ clipLayer = FALSE
  /\ clipObjs = <<>>
  /\ response = NoResponse
  /\ exportTrace = NoTrace
  /\ anchorSetBy = NoAnchorBody
  /\ mapLayer = FALSE
  /\ hasMapImage = FALSE
  /\ hasImagery \in BOOLEAN
  /\ stPc = "off"
  /\ tileX = 0
  /\ tileY = 0
  /\ canvas = NoCanvas
  /\ requested = <<>>
  /\ outcomes = <<>>
  /\ draws = <<>>
  /\ fetchedCount = 0
  /\ warnings = <<>>
  /\ fetchedLog = NoLog
  /\ lastCall = Call("none", ViewState, "undefined")
  /\ exPc = "idle"
  /\ modeAtCall = "none"
  /\ modeAtCheck = "none"
  /\ anchorAtCall = UnsetAnchor
  /\ anchorRequests = 0
  /\ anchorResult = "none"
  /\ provider \in RequestOutcomes
  /\ exResult = "none"
  /\ ServerIdle

ExportNext ==
  \/ ViewCall
  \/ ExportClick
  \/ GetViewCenter
  \/ SetEarthAnchorInRhino
  \/ CalculateExportBounds
  \/ CreateCanvas
  \/ ExportRequestImage
  \/ ReturnCanvas
  \/ ExportReturn

SpecExport == ExportInit /\ [][ExportNext]_vars

\* The surfaces the scene draws: the tileset when there is one and its show
\* flag is set, globe2D when it is the scene's globe and its flag is set.
ShownSurfaces ==
  (IF tilesetLoaded /\ tilesetShow THEN 1 ELSE 0)
    + (IF globeInitialized /\ globeShow THEN 1 ELSE 0)

\* A switch has happened: the first one attaches globe2D to the scene.
Switched == globeInitialized

\* The flags of each mode, the value toggleViewMode returns, and the calls
\* that meet their own mode.
ViewFlagsAndCalls ==
  /\ currentMode \in {"2D", "3D"}
  /\ Switched =>
       /\ currentMode = "2D" =>
            /\ tilesetLoaded => ~tilesetShow
            /\ globeShow /\ ~enableTilt /\ ~enableLook
       /\ currentMode = "3D" =>
            /\ tilesetLoaded => tilesetShow
            /\ ~globeShow /\ enableTilt /\ enableLook
  /\ lastCall.op = "toggleViewMode" =>
       /\ lastCall.returned = currentMode
       /\ currentMode # lastCall.before.mode
  /\ lastCall.op = "switchTo2D" =>
       /\ currentMode = "2D"
       /\ lastCall.before.mode = "2D" => ViewState = lastCall.before
  /\ lastCall.op = "switchTo3D" =>
       /\ currentMode = "3D"
       /\ lastCall.before.mode = "3D" => ViewState = lastCall.before

\* C26 as stated: after initViewMode and any sequence of toggleViewMode,
\* switchTo2D and switchTo3D calls the mode is '2D' or '3D' and, once a
\* switch has happened, exactly one surface is shown, the globe with tilt
\* and look disabled in 2D and the tileset with both enabled in 3D;
\* toggleViewMode returns the new mode and a switch to the active mode
\* changes nothing.
C26_ExactlyOneSurface ==
  /\ ViewFlagsAndCalls
  /\ Switched => ShownSurfaces = 1

\* C26 amended: the same, with exactly one surface shown when the 3D
\* tileset loaded; when it did not load, 2D shows the globe and 3D shows no
\* surface.
C26_ViewModeConsistent ==
  /\ ViewFlagsAndCalls
  /\ Switched =>
       ShownSurfaces = IF currentMode = "3D" /\ ~tilesetLoaded THEN 0 ELSE 1

\* C26 witness: a toggle out of 2D has returned '3D' with the tileset shown,
\* the globe hidden and the camera unlocked.
C26_Witness ==
  /\ lastCall = Call("toggleViewMode",
                     [mode |-> "2D", globeInitialized |-> TRUE,
                      tilesetShow |-> FALSE, globeShow |-> TRUE,
                      enableTilt |-> FALSE, enableLook |-> FALSE], "3D")
  /\ tilesetLoaded /\ tilesetShow /\ ~globeShow
  /\ enableTilt /\ enableLook
  /\ currentMode = "3D"

\* What C27 says an export without effect leaves behind.
ExportWithoutEffect ==
  /\ anchorRequests = 0
  /\ tileBounds = NoBounds
  /\ stPc = "off"
  /\ requested = <<>>
  /\ anchor = anchorAtCall
  /\ exPc = "returned" => exResult = "null"

\* C27 as stated: exportMapToRhino called while the view mode is not '2D'
\* returns null, sends no set-earth-anchor request, computes no tile bounds
\* and requests no tile, so the Rhino anchor is unchanged.
C27_Not2DAtCallNoEffect ==
  (modeAtCall = "3D" /\ exPc # "check") => ExportWithoutEffect

\* C27 amended: the same for a call whose getCurrentMode() test, made after
\* the first log line has been sent, finds a mode other than '2D'.
C27_Not2DAtCheckNoEffect ==
  modeAtCheck = "3D" => (exPc = "returned" /\ ExportWithoutEffect)

\* C27 witness: an export refused in 3D has returned null on a document
\* whose anchor the user had set.
C27_Witness ==
  /\ modeAtCheck = "3D"
  /\ exPc = "returned"
  /\ exResult = "null"
  /\ docOpen /\ anchor.set

\* C28: the set-earth-anchor request precedes every tile request; when its
\* response carries an error or the transport fails no tile is requested
\* and null is returned; { center, tileBounds } is returned only when the
\* anchor was set to the centre and the stitching completed.
C28_AnchorBeforeTiles ==
  /\ (stPc # "off" \/ requested # <<>> \/ tileBounds # NoBounds) =>
       /\ anchorRequests = 1
       /\ anchorResult = "success"
  /\ anchorResult \in {"error", "unreachable", "notOk"} =>
       /\ requested = <<>>
       /\ stPc = "off"
       /\ exPc = "returned"
       /\ exResult = "null"
  /\ exResult = "value" =>
       /\ anchorResult = "success"
       /\ anchor = Anchor(TRUE, center.lat * 1000, center.lon * 1000, 0,
                          Pt(0, 0), Pt(0, 1), Pt(1, 0))
       /\ stPc = "done"
       /\ Len(requested) = tileBounds.totalTiles

\* C28 witness: an export has returned its result after the anchor was set
\* to the centre and all 15 x 15 tiles were requested.
C28_Witness ==
  /\ exResult = "value"
  /\ anchorResult = "success"
  /\ anchor.lat = 0 /\ anchor.lon = 25000000
  /\ tileBounds.totalTiles = 225
  /\ Len(requested) = 225

\* ----------------------------------------------------- SimpleHttpServer
\* request.HttpMethod and request.Url.AbsolutePath of the requests sent.
Methods == {"GET", "POST", "OPTIONS"}
Paths ==
  {"/export-geometry", "/log", "/set-earth-anchor", "/import-map-image",
   "/other"}

PostOnly == {"/set-earth-anchor", "/import-map-image"}
KnownPaths == {"/export-geometry", "/log"} \cup PostOnly

\* The if-chain of HandleRequest: the status it sets and the function it
\* calls.
Routed(status, served) == [status |-> status, served |-> served]

RouteIgnoringMethod(method, path) ==
  IF method = "OPTIONS" THEN Routed(200, "none")
  ELSE IF path = "/export-geometry" THEN Routed(200, "GetGeometryJson")
  ELSE IF path = "/log" THEN Routed(200, "none")
  ELSE IF path = "/set-earth-anchor" THEN Routed(200, "SetEarthAnchor")
  ELSE IF path = "/import-map-image" THEN Routed(200, "ImportMapImage")
  ELSE Routed(404, "none")
Route(method, path) ==
  IF method = "OPTIONS" THEN Routed(200, "none")
  ELSE IF path = "/export-geometry" THEN Routed(200, "GetGeometryJson")
  ELSE IF path = "/log" THEN Routed(200, "none")
  ELSE IF path = "/set-earth-anchor" /\ method = "POST"
  THEN Routed(200, "SetEarthAnchor")
  ELSE IF path = "/import-map-image" /\ method = "POST"
  THEN Routed(200, "ImportMapImage")
  ELSE Routed(404, "none")

serverFrame == <<syncVars, placementVars, tileVars, stitchVars, exportVars>>

\* Start: nothing when running; else the listener is created and started,
\* which fails when the port is taken, and Listen is run in the background.
\* The plugin starts its server in OnLoad and stops it in OnShutdown, so a
\* stopped server is not started again.
Start ==
  /\ listener # "closed"
  /\ lastOp' = Op("Start", ServerState)
  /\ IF isRunning
     THEN UNCHANGED <<isRunning, listener, loopPc>>
     ELSE \E started \in BOOLEAN :
            IF started
            THEN /\ listener' = "listening"
                 /\ isRunning' = TRUE
                 /\ loopPc' = "accept"
            ELSE UNCHANGED <<isRunning, listener, loopPc>>
  /\ UNCHANGED <<pending, accepted, handlers>>
  /\ UNCHANGED <<serverFrame, rhinoVars>>

\* Stop: nothing when not running; else the flag is cleared and the
\* listener stopped and closed, which drops the connections that wait.
Stop ==
  /\ lastOp' = Op("Stop", ServerState)
  /\ IF isRunning
     THEN /\ isRunning' = FALSE
          /\ listener' = "closed"
          /\ pending' = 0
     ELSE UNCHANGED <<isRunning, listener, pending>>
  /\ UNCHANGED <<loopPc, accepted, handlers>>
  /\ UNCHANGED <<serverFrame, rhinoVars>>

\* A client connects and sends a request.
Send ==
  /\ listener = "listening"
  /\ accepted + pending < MaxRequests
  /\ pending' = pending + 1
  /\ UNCHANGED <<isRunning, listener, loopPc, accepted, handlers, lastOp>>
  /\ UNCHANGED <<serverFrame, rhinoVars>>

\* Where Listen is after GetContextAsync gave a context: in
\* `await HandleRequest(context)`.
AfterAcceptKeepsListening == "accept"
AfterAccept == "await"

\* `var context = await _listener.GetContextAsync()`.
GetContext ==
  /\ loopPc = "accept"
  /\ listener = "listening"
  /\ pending > 0
  /\ pending' = pending - 1
  /\ accepted' = accepted + 1
  /\ \E m \in Methods, p \in Paths :
       handlers' = [handlers EXCEPT ![accepted + 1] =
                      [NoHandler EXCEPT !.pc = "route", !.method = m,
                                        !.path = p]]
  /\ loopPc' = AfterAccept
  /\ UNCHANGED <<isRunning, listener, lastOp>>
  /\ UNCHANGED <<serverFrame, rhinoVars>>

\* GetContextAsync throws when the listener is stopped, and `while
\* (_isRunning)` ends the loop.
ListenExit ==
  /\ loopPc = "accept"
  /\ ~isRunning
  /\ loopPc' = "exited"
  /\ UNCHANGED <<isRunning, listener, pending, accepted, handlers, lastOp>>
  /\ UNCHANGED <<serverFrame, rhinoVars>>

Stopped == listener = "closed"

\* HandleRequest up to the call of the endpoint's function.  On a closed
\* listener the context may throw instead, which Listen catches.
RouteRequest(k) ==
  /\ handlers[k].pc = "route"
  /\ \E thrown \in IF Stopped THEN BOOLEAN ELSE {FALSE} :
       LET h == handlers[k]
           r == Route(h.method, h.path)
       IN  handlers' = [handlers EXCEPT ![k] =
             IF thrown
             THEN [h EXCEPT !.pc = "close", !.afterStop = TRUE]
             ELSE [h EXCEPT !.pc = IF r.served = "none" THEN "close"
                                   ELSE "call",
                            !.status = r.status, !.served = r.served,
                            !.afterStop = @ \/ Stopped]]
  /\ UNCHANGED <<isRunning, listener, loopPc, pending, accepted, lastOp>>
  /\ UNCHANGED <<serverFrame, rhinoVars>>

\* GetGeometryJson, SetEarthAnchor or ImportMapImage on the document.
CallEndpoint(k) ==
  /\ handlers[k].pc = "call"
  /\ \/ /\ handlers[k].served = "GetGeometryJson"
        /\ \E ok \in BOOLEAN, hasResult \in BOOLEAN :
             HandleGetGeometryJson(ok, hasResult)
     \/ /\ handlers[k].served = "SetEarthAnchor"
        /\ \E lat \in LatFields, lon \in LonFields, hasResult \in BOOLEAN :
             HandleSetEarthAnchor(lat, lon, hasResult)
     \/ /\ handlers[k].served = "ImportMapImage"
        /\ \E image \in ImageFields, frameOk \in BOOLEAN,
              hasResult \in BOOLEAN :
             HandleImportMapImage(image, frameOk, hasResult)
  /\ handlers' = [handlers EXCEPT ![k].pc = "close",
                                  ![k].afterStop = @ \/ Stopped]
  /\ UNCHANGED <<isRunning, listener, loopPc, pending, accepted, lastOp>>
  /\ UNCHANGED serverFrame

\* response.Close() and the return to Listen, which tests _isRunning.
CloseResponse(k) ==
  /\ handlers[k].pc = "close"
  /\ handlers' = [handlers EXCEPT ![k].pc = "done",
                                  ![k].afterStop = @ \/ Stopped]
  /\ loopPc' = IF loopPc # "await" THEN loopPc
               ELSE IF isRunning THEN "accept" ELSE "exited"
  /\ UNCHANGED <<isRunning, listener, pending, accepted, lastOp>>
  /\ UNCHANGED <<serverFrame, rhinoVars>>

\* Rhino has loaded the plugin on a document the user prepared.
ServerInit ==
  /\ SyncIdle
  /\ PlacementIdle
  /\ TilesIdle
  /\ StitchIdle
  /\ ExportIdle
  /\ ServerIdle
  /\ docOpen \in BOOLEAN
  /\ massingLayer = IF docOpen THEN "unlocked" ELSE "absent"
  /\ massingObjs = docOpen
  /\ anchor \in IF docOpen THEN UserAnchors ELSE {UnsetAnchor}
  /\ clipLayer = FALSE
  /\ clipObjs = <<>>
  /\ response = NoResponse
  /\ exportTrace = NoTrace
  /\ anchorSetBy = NoAnchorBody
  /\ mapLayer = FALSE
  /\ hasMapImage = FALSE

ServerNext ==
  \/ Start
  \/ Stop
  \/ Send
  \/ GetContext
  \/ ListenExit
  \/ \E k \in 1..MaxRequests :
       RouteRequest(k) \/ CallEndpoint(k) \/ CloseResponse(k)

SpecServer == ServerInit /\ [][ServerNext]_vars

\* The HandleRequest calls that have begun and not returned, and those
\* among them that are inside the endpoint's function.
Handling == {k \in 1..MaxRequests : handlers[k].pc \in {"route", "call", "close"}}
OnRhinoSide == {k \in 1..MaxRequests : handlers[k].pc = "call"}

\* One request at a time, and the two guards of Start and Stop.
SerialAndGuarded ==
  /\ Cardinality(Handling) <= 1
  /\ Cardinality(OnRhinoSide) <= 1
  /\ (lastOp.op = "Start" /\ lastOp.before.isRunning) =>
        ServerState = lastOp.before
  /\ (lastOp.op = "Stop" /\ ~lastOp.before.isRunning) =>
        ServerState = lastOp.before

\* The request is one for an unknown path, or for a POST-only endpoint with
\* another method.
Misaddressed(h) ==
  h.path \notin KnownPaths \/ (h.path \in PostOnly /\ h.method # "POST")

\* C30 as stated: the server handles one request at a time, so that no two
\* requests interleave on the Rhino side; Start while running and Stop
\* while stopped change nothing; no request is handled after Stop; every
\* request to an unknown path or with the wrong method for a POST-only
\* endpoint gets a 404.
C30_SerialAndAlways404 ==
  /\ SerialAndGuarded
  /\ \A k \in 1..MaxRequests :
       /\ ~handlers[k].afterStop
       /\ (handlers[k].status # 0 /\ Misaddressed(handlers[k])) =>
            handlers[k].status = 404

\* C30 amended: one request at a time and the two guards as stated; no
\* request is accepted after Stop, while one accepted before may still be
\* in its handler; a request other than OPTIONS gets a 404 exactly when its
\* path is unknown or its method is wrong for a POST-only endpoint, and an
\* OPTIONS request gets a 200 on every path without reaching an endpoint.
C30_SerialAndRouted ==
  /\ [](/\ SerialAndGuarded
        /\ \A k \in 1..MaxRequests :
             handlers[k].status # 0 =>
               /\ handlers[k].status \in {200, 404}
               /\ (handlers[k].status = 404) <=>
                    (handlers[k].method # "OPTIONS"
                       /\ Misaddressed(handlers[k]))
               /\ handlers[k].method = "OPTIONS" =>
                    handlers[k].served = "none")
  /\ [][Stopped => accepted' = accepted]_vars

\* C30 witness: after a GET of /set-earth-anchor was answered with 404, a
\* POST of it is inside SetEarthAnchor, alone, and a Start on the running
\* server has changed nothing.
C30_Witness ==
  /\ handlers[1].pc = "done"
  /\ handlers[1].method = "GET"
  /\ handlers[1].path = "/set-earth-anchor"
  /\ handlers[1].status = 404
  /\ handlers[2].pc = "call"
  /\ handlers[2].served = "SetEarthAnchor"
  /\ lastOp = Op("Start", [isRunning |-> TRUE, listener |-> "listening"])
  /\ isRunning

====
